---- MODULE Spec2Model ----
(***************************************************************************)
(* A model of the luct Certificate Transparency auditor:                   *)
(*   - the Merkle tree engine (luct-core/src/tree),                        *)
(*   - the per-log STH verifier (luct-scanner/src/log.rs),                 *)
(*   - the request deduplication client (luct-client/src/impls),           *)
(*   - the scanner's report collection (luct-scanner/src/lib.rs),          *)
(*   - the scanner's lead investigation (luct-scanner/src/log.rs),         *)
(*   - the pure functions of luct-core and of the report policy.           *)
(* Each part has its own specification over the shared variables; the      *)
(* variables of the other parts stay at their initial values.              *)
(***************************************************************************)
EXTENDS Integers, Sequences, FiniteSets, TLC

VARIABLES
    \* ---- Tree<N, L, V> and its caller
    nodes,      \* Tree.nodes : Store<NodeKey, HashOutput>, a function NodeKey -> hash
    leafs,      \* Tree.leafs : Store<u64, V>, the values at keys 0..len-1 (index i+1 here)
    heads,      \* the TreeHeads the caller got from recompute_tree_head
    ret,        \* what the caller's last call on the tree returned
    overflow_checks,  \* the build: TRUE when integer overflow panics (debug), FALSE when it wraps
    \* ---- ScannerLog: one log verifier and the tasks calling it
    sth_store,  \* ScannerLogInner.sth_store : OrderedStore<u64, SignedTreeHead>
    tiles,      \* ScannerLog.tiles is Some: the log is a tiling log
    pc,         \* per task: where it is in latest_sth / update_sth
    op,         \* per task: the call it runs
    new_sth,    \* per task: the local new_sth / sth (the fetched STH)
    old_sth,    \* per task: the local old_sth (what sth_store.last() returned)
    chk,        \* per task: what the consistency check returned
    result,     \* per task: what the call returned
    floor,      \* per task: the largest tree size a latest_sth call had returned when this call began
    returned,   \* the largest tree size a latest_sth call has returned so far
    calls,      \* the number of calls begun so far
    \* ---- RequestDeduplicationClient and the tasks calling it
    requests,   \* RequestDeduplicationClient.requests : key -> the senders, by the caller owning the receiver
    dpc,        \* per caller: where it is in wait_or_try_get
    dkey,       \* per caller: the local key
    kind,       \* per caller: get or get_bin
    request,    \* per caller: the local request is Some (the caller makes the inner call)
    response,   \* per caller: the local response of the request future
    chan,       \* per caller: what was sent on its oneshot channel and not yet received
    got,        \* per caller: what wait_or_try_get returned
    src,        \* per caller: the number of the inner call its waiter is attached to
    inner_calls,  \* the number of calls to the inner client so far
    \* ---- Scanner::collect_report and its per-SCT futures
    embedded_scts,  \* the SCTs extract_scts_v1 returned, in extraction order
    log_stores, \* per known log: its ScannerLog's sth_store
    spc,        \* per SCT: where collect_embedded_sct_report is
    report,     \* per SCT: the local report of collect_embedded_sct_report
    last_sth,   \* per SCT: the local last_sth
    scts,       \* Report.scts, once collect_report has returned
    cpc,        \* collect_report: running, returned or panicked
    \* ---- Scanner::investigate_lead
    sct_cache,  \* Scanner.sct_cache : Store<HashOutput, SCT>, the SCTs by the hash of their encoding
    root_keys,  \* per known log: ScannerLogInner.root_keys, the key ids of the allowed roots
    node_cache, \* per known log: TileFetchStore.node_cache : Store<NodeKey, HashOutput>
    lpc,        \* where investigate_lead is
    lead,       \* the lead under investigation
    lsth,       \* check_embedded_sct_inclusion: the local sth
    lnew,       \* update_sth: the local new_sth
    conclusion, \* what investigate_lead returned
    trail,      \* what the investigation has done: requests made, a transport failure seen,
                \* the inclusion check passed, the root validated
    \* ---- the library functions and stores, called by a caller on its own
    input,      \* the arguments of the caller's call
    output,     \* what the call returned (NotCalled before the call)
    memory_store,   \* MemoryStore: the BTreeMap
    directory,      \* FilesystemStore: the files of its directory, file name -> content
    local_storage,  \* BrowserStore: the items of the browser's localStorage, key -> value
    \* ---- threads calling Tree::insert_entry on one tree
    inserts,    \* per thread: where it is in insert_entry, and its locals
    \* ---- TileFetcher: checks running concurrently on one tiling log
    fetch_size, \* TileFetchStore.tree_size : AtomicU64
    fetched,    \* TileFetchStore.node_cache, as the NodeKeys it holds
    checks      \* per check: where it is, the tree size of its proof, the tile ids it
                \* computed, the gets whose tile fetch is in flight

treeVars == <<nodes, leafs, heads, ret>>
sthVars == <<sth_store, tiles, pc, op, new_sth, old_sth, chk, result, floor, returned, calls>>
dedupVars == <<requests, dpc, dkey, kind, request, response, chan, got, src, inner_calls>>
scanVars == <<embedded_scts, log_stores, spc, report, last_sth, scts, cpc>>
leadVars == <<sct_cache, root_keys, node_cache, lpc, lead, lsth, lnew, conclusion, trail>>
storeVars == <<memory_store, directory, local_storage>>
callVars == <<input, output, storeVars>>
insertVars == <<inserts>>
fetchVars == <<fetch_size, fetched, checks>>
\* what the actions of one part leave unchanged
treeOthers == <<overflow_checks, sthVars, dedupVars, scanVars, leadVars, callVars, insertVars, fetchVars>>
sthOthers == <<treeVars, dedupVars, scanVars, leadVars, callVars, insertVars, fetchVars>>
dedupOthers == <<treeVars, overflow_checks, sthVars, scanVars, leadVars, callVars, insertVars, fetchVars>>
scanOthers == <<treeVars, overflow_checks, sthVars, dedupVars, leadVars, callVars, insertVars, fetchVars>>
leadOthers == <<treeVars, sth_store, pc, op, new_sth, old_sth, chk, result, floor, returned,
                calls, dedupVars, embedded_scts, spc, report, last_sth, scts, cpc, callVars,
                insertVars, fetchVars>>
insertOthers == <<heads, ret, overflow_checks, sthVars, dedupVars, scanVars, leadVars, callVars,
                  fetchVars>>
fetchOthers == <<treeVars, overflow_checks, sthVars, dedupVars, scanVars, leadVars, callVars,
                 insertVars>>
callOthers == <<treeVars, overflow_checks, sthVars, dedupVars, scanVars, leadVars, insertVars,
                fetchVars>>
vars == <<nodes, leafs, heads, ret, overflow_checks,
          sth_store, tiles, pc, op, new_sth, old_sth, chk, result, floor, returned, calls,
          requests, dpc, dkey, kind, request, response, chan, got, src, inner_calls,
          embedded_scts, log_stores, spc, report, last_sth, scts, cpc,
          sct_cache, root_keys, node_cache, lpc, lead, lsth, lnew, conclusion, trail,
          input, output, memory_store, directory, local_storage,
          inserts, fetch_size, fetched, checks>>

-----------------------------------------------------------------------------
(* Bounds *)

\* insert_entry is called at most this many times
MaxLeaves == 7
\* recompute_tree_head is called at most this many times on a non-empty tree
MaxHeads == 2
\* insert_entry is called at most this many times before proofs are altered
TamperLeaves == 4
\* the calls the tasks begin in total
MaxCalls == 3
\* the inner client is called at most this many times
MaxInnerCalls == 2
\* the largest tree size the log serves
MaxLogSize == 2
\* the number of leading entries the two histories of the log share
ForkAt == 1
\* the leaf values the caller inserts
Values == {1, 2}
\* the SCTs the investigations put into sct_cache
MaxCached == 1

-----------------------------------------------------------------------------
(* Hashes.  SHA-256 is treated as collision-free: a hash is modelled by the  *)
(* byte string that is hashed, so that different inputs give different      *)
(* hashes.  A leaf value v hashes to <<0, v>>; a node to 1 ++ left ++ right.*)

\* Option::None of a store lookup
None == <<>>

\* Hashable::hash of a leaf value
LeafHash(v) == <<0, v>>

\* A variant of Node::hash that hashes the children in the wrong order
NodeHashSwapped(left, right) == <<1>> \o right \o left

\* impl Hashable for Node: SHA256(0x01 || left || right)
NodeHash(left, right) == <<1>> \o left \o right

\* a hash that is the hash of nothing in the tree
JunkHash == <<0, 0>>

-----------------------------------------------------------------------------
(* NodeKey *)

RECURSIVE NptFrom(_, _)
NptFrom(n, p) == IF p >= n THEN p ELSE NptFrom(n, 2 * p)

\* u64::next_power_of_two: the smallest power of two >= n (1 for n = 0)
next_power_of_two(n) == NptFrom(n, 1)

\* u64::is_power_of_two
is_power_of_two(n) == n > 0 /\ next_power_of_two(n) = n

NodeKey(s, e) == [start |-> s, end |-> e]

\* NodeKey::leaf
leaf(idx) == NodeKey(idx, idx + 1)

\* NodeKey::full_range
full_range(end) == NodeKey(0, end)

\* NodeKey::size
size(key) == key.end - key.start

\* NodeKey::split_idx
split_idx(key) == next_power_of_two(size(key)) \div 2

\* A variant of NodeKey::split that halves the range
split_half(key) ==
    LET s == key.start + (size(key) \div 2)
    IN  <<NodeKey(key.start, s), NodeKey(s, key.end)>>

\* NodeKey::split
split(key) ==
    LET s == key.start + split_idx(key)
    IN  <<NodeKey(key.start, s), NodeKey(s, key.end)>>

\* NodeKey::merge (None when the keys are not adjacent)
merge(a, b) == IF a.end = b.start THEN NodeKey(a.start, b.end) ELSE None

\* NodeKey::is_balanced
is_balanced(key) == is_power_of_two(key.end - key.start)

\* NodeKey::is_leaf
is_leaf(key) == key.start + 1 = key.end

-----------------------------------------------------------------------------
(* Store<NodeKey, HashOutput> (MemoryStore: a BTreeMap) *)

EmptyStore == [k \in {} |-> None]

\* Store::get
StoreGet(store, key) == IF key \in DOMAIN store THEN store[key] ELSE None

\* Store::insert (BTreeMap::insert replaces the value of an existing key)
StoreInsert(store, key, value) ==
    [k \in (DOMAIN store) \cup {key} |-> IF k = key THEN value ELSE store[k]]

-----------------------------------------------------------------------------
(* Tree::insert_entry and Tree::recompute_tree_head (luct-core/src/tree.rs) *)

TreeHead(n, h) == [tree_size |-> n, head |-> h]

\* The loop of insert_entry: for diff = 2, 4, ... while end % diff == 0, hash
\* the two halves of {end - diff, end} and store the node (unwrap panics on a
\* missing half)
RECURSIVE InsertLoop(_, _, _)
InsertLoop(store, end, diff) ==
    IF end % diff # 0
    THEN [ok |-> TRUE, nodes |-> store]
    ELSE LET key == NodeKey(end - diff, end)
             lr == split(key)
             l == StoreGet(store, lr[1])
             r == StoreGet(store, lr[2])
         IN  IF l = None \/ r = None
             THEN [ok |-> FALSE, nodes |-> store]
             ELSE InsertLoop(StoreInsert(store, key, NodeHash(l, r)), end, 2 * diff)

\* Tree::insert_entry on (nodes, leafs): the stores after the call, and whether
\* the call returned (ok) or panicked
insert_entry(store, values, entry) ==
    LET idx == Len(values)
        entry_key == leaf(idx)
        old_hash == StoreGet(store, entry_key)
        store1 == StoreInsert(store, entry_key, LeafHash(entry))
        values1 == Append(values, entry)
    IN  IF old_hash # None
        THEN [ok |-> FALSE, nodes |-> store1, leafs |-> values1]
        ELSE LET r == InsertLoop(store1, idx + 1, 2)
             IN  [ok |-> r.ok, nodes |-> r.nodes, leafs |-> values1]

\* The first loop of recompute_tree_head: split until the key is balanced,
\* pushing the left halves; assert!(left.is_balanced()) fails on the empty range
RECURSIVE SpineWalk(_, _)
SpineWalk(key, stack) ==
    IF is_balanced(key)
    THEN [ok |-> TRUE, key |-> key, stack |-> stack]
    ELSE LET lr == split(key)
         IN  IF ~is_balanced(lr[1])
             THEN [ok |-> FALSE, key |-> key, stack |-> stack]
             ELSE SpineWalk(lr[2], Append(stack, lr[1]))

\* A variant of the second loop that does not store the nodes it folds
RECURSIVE SpineFoldNoStore(_, _, _, _)
SpineFoldNoStore(store, stack, current_key, current_hash) ==
    IF stack = <<>>
    THEN [ok |-> TRUE, nodes |-> store, head |-> current_hash]
    ELSE LET left_key == stack[Len(stack)]
             l == StoreGet(store, left_key)
         IN  IF l = None
             THEN [ok |-> FALSE, nodes |-> store, head |-> current_hash]
             ELSE SpineFoldNoStore(store, SubSeq(stack, 1, Len(stack) - 1),
                                   merge(left_key, current_key), NodeHash(l, current_hash))

\* The second loop of recompute_tree_head: pop the left keys, hash each with
\* the node of current_key, store the merged node
RECURSIVE SpineFold(_, _, _, _)
SpineFold(store, stack, current_key, current_hash) ==
    IF stack = <<>>
    THEN [ok |-> TRUE, nodes |-> store, head |-> current_hash]
    ELSE LET left_key == stack[Len(stack)]
             l == StoreGet(store, left_key)
             r == StoreGet(store, current_key)
         IN  IF l = None \/ r = None
             THEN [ok |-> FALSE, nodes |-> store, head |-> current_hash]
             ELSE LET k == merge(left_key, current_key)
                      h == NodeHash(l, r)
                  IN  SpineFold(StoreInsert(store, k, h),
                                SubSeq(stack, 1, Len(stack) - 1), k, h)

\* Tree::recompute_tree_head on (nodes, leafs): the node store after the call
\* and the TreeHead returned, or a panic
recompute_tree_head(store, values) ==
    LET tree_size == Len(values)
        w == SpineWalk(full_range(tree_size), <<>>)
    IN  IF ~w.ok
        THEN [ok |-> FALSE, nodes |-> store, head |-> TreeHead(tree_size, None)]
        ELSE LET h0 == StoreGet(store, w.key)
             IN  IF h0 = None
                 THEN [ok |-> FALSE, nodes |-> store, head |-> TreeHead(tree_size, None)]
                 ELSE LET f == SpineFold(store, w.stack, w.key, h0)
                      IN  [ok |-> f.ok, nodes |-> f.nodes,
                           head |-> TreeHead(tree_size, f.head)]

-----------------------------------------------------------------------------
(* Audit proofs (luct-core/src/tree/inclusion.rs) *)

Reverse(s) == [i \in 1..Len(s) |-> s[Len(s) + 1 - i]]

\* fn get_audit_proof<F, O>: the lookups of the siblings, root to leaf
RECURSIVE AuditWalk(_, _, _)
AuditWalk(store, n, m) ==
    IF is_leaf(n)
    THEN <<>>
    ELSE LET lr == split(n)
         IN  IF m < lr[2].start
             THEN <<StoreGet(store, lr[2])>> \o AuditWalk(store, lr[1], m)
             ELSE <<StoreGet(store, lr[1])>> \o AuditWalk(store, lr[2], m)

\* A variant of Tree::get_audit_proof that returns the path root to leaf
get_audit_proof_unreversed(store, head, index) ==
    IF index >= head.tree_size
    THEN [ok |-> FALSE, err |-> "InvalidIndex", index |-> index, path |-> <<>>]
    ELSE LET path == AuditWalk(store, full_range(head.tree_size), index)
         IN  IF \E i \in 1..Len(path) : path[i] = None
             THEN [ok |-> FALSE, err |-> "KeyNotFound", index |-> index, path |-> <<>>]
             ELSE [ok |-> TRUE, err |-> "", index |-> index, path |-> path]

\* Tree::get_audit_proof
get_audit_proof(store, head, index) ==
    IF index >= head.tree_size
    THEN [ok |-> FALSE, err |-> "InvalidIndex", index |-> index, path |-> <<>>]
    ELSE LET path == AuditWalk(store, full_range(head.tree_size), index)
         IN  IF \E i \in 1..Len(path) : path[i] = None
             THEN [ok |-> FALSE, err |-> "KeyNotFound", index |-> index, path |-> <<>>]
             ELSE [ok |-> TRUE, err |-> "", index |-> index, path |-> Reverse(path)]

\* while f_n & 1 != 1 && f_n != 0 { f_n >>= 1; s_n >>= 1 }
RECURSIVE ShiftUntilOdd(_, _)
ShiftUntilOdd(f_n, s_n) ==
    IF f_n % 2 # 1 /\ f_n # 0
    THEN ShiftUntilOdd(f_n \div 2, s_n \div 2)
    ELSE <<f_n, s_n>>

\* The loop of AuditProof::validate from path element i on, and the checks
\* that follow it
RECURSIVE AuditFold(_, _, _, _, _, _)
AuditFold(path, i, f_n, s_n, r, head) ==
    IF i > Len(path)
    THEN IF s_n # 0 THEN "PathTooLong"
         ELSE IF r # head.head THEN "HashMismatch"
         ELSE "Ok"
    ELSE IF s_n = 0 THEN "PathTooShort"
    ELSE IF f_n % 2 = 1 \/ f_n = s_n
         THEN LET fs == ShiftUntilOdd(f_n, s_n)
              IN  AuditFold(path, i + 1, fs[1] \div 2, fs[2] \div 2,
                            NodeHash(path[i], r), head)
         ELSE AuditFold(path, i + 1, f_n \div 2, s_n \div 2,
                        NodeHash(r, path[i]), head)

\* AuditProof::validate: "Ok" or the ProofValidationError.  On a tree head of
\* size 0, head.tree_size - 1 overflows: a panic with overflow checks; without
\* them s_n wraps to 2^64 - 1, which a path of fewer than 64 hashes does not
\* shift down to 0
AuditProof_validate(proof, head, leaf_hash) ==
    IF head.tree_size < proof.index THEN "InvalidIndex"
    ELSE IF head.tree_size = 0
         THEN IF overflow_checks THEN "Panic" ELSE "PathTooLong"
    ELSE AuditFold(proof.path, 1, proof.index, head.tree_size - 1, leaf_hash, head)

-----------------------------------------------------------------------------
(* Consistency proofs (luct-core/src/tree/consistency.rs) *)

\* fn get_consistency_proof<F, O>: the lookups, root to leaf, from key n on
RECURSIVE ConsistencyWalk(_, _, _, _)
ConsistencyWalk(store, n, m, known) ==
    IF m = n.end
    THEN IF ~known THEN <<StoreGet(store, n)>> ELSE <<>>
    ELSE LET lr == split(n)
         IN  IF m <= lr[2].start
             THEN <<StoreGet(store, lr[2])>> \o ConsistencyWalk(store, lr[1], m, known)
             ELSE <<StoreGet(store, lr[1])>> \o ConsistencyWalk(store, lr[2], m, FALSE)

\* A variant of the walk that never pushes the final subtree
RECURSIVE ConsistencyWalkNoFinal(_, _, _, _)
ConsistencyWalkNoFinal(store, n, m, known) ==
    IF m = n.end
    THEN <<>>
    ELSE LET lr == split(n)
         IN  IF m <= lr[2].start
             THEN <<StoreGet(store, lr[2])>> \o ConsistencyWalkNoFinal(store, lr[1], m, known)
             ELSE <<StoreGet(store, lr[1])>> \o ConsistencyWalkNoFinal(store, lr[2], m, FALSE)

\* The proof of both Tree::get_consistency_proof and its async twin, once the
\* tree sizes are accepted
ConsistencyPath(store, first, second) ==
    LET path == ConsistencyWalk(store, full_range(second.tree_size), first.tree_size, TRUE)
    IN  IF \E i \in 1..Len(path) : path[i] = None
        THEN [ok |-> FALSE, err |-> "KeyNotFound", path |-> <<>>]
        ELSE [ok |-> TRUE, err |-> "", path |-> Reverse(path)]

\* Tree::get_consistency_proof (sync store)
get_consistency_proof(store, first, second) ==
    IF first.tree_size > second.tree_size
    THEN [ok |-> FALSE, err |-> "InvalidTreeSize", path |-> <<>>]
    ELSE ConsistencyPath(store, first, second)

\* Tree::get_consistency_proof_async (async store): equal sizes are refused too
get_consistency_proof_async(store, first, second) ==
    IF first.tree_size >= second.tree_size
    THEN [ok |-> FALSE, err |-> "InvalidTreeSize", path |-> <<>>]
    ELSE ConsistencyPath(store, first, second)

\* while f_n & 1 == 1 { f_n >>= 1; s_n >>= 1 }
RECURSIVE ShiftWhileOdd(_, _)
ShiftWhileOdd(f_n, s_n) ==
    IF f_n % 2 = 1
    THEN ShiftWhileOdd(f_n \div 2, s_n \div 2)
    ELSE <<f_n, s_n>>

\* while f_n & 1 == 0 && f_n != 0 { f_n >>= 1; s_n >>= 1 }
RECURSIVE ShiftWhileEven(_, _)
ShiftWhileEven(f_n, s_n) ==
    IF f_n % 2 = 0 /\ f_n # 0
    THEN ShiftWhileEven(f_n \div 2, s_n \div 2)
    ELSE <<f_n, s_n>>

\* A variant of the loop's final checks that does not compare f_r with the first
\* tree head
RECURSIVE ConsistencyFoldSecondOnly(_, _, _, _, _, _, _, _)
ConsistencyFoldSecondOnly(path, i, f_n, s_n, f_r, s_r, first, second) ==
    IF i > Len(path)
    THEN IF s_n # 0 THEN "PathTooLong"
         ELSE IF s_r # second.head THEN "HashMismatch"
         ELSE "Ok"
    ELSE IF s_n = 0 THEN "PathTooShort"
    ELSE IF f_n % 2 = 1 \/ f_n = s_n
         THEN LET fs == ShiftWhileEven(f_n, s_n)
              IN  ConsistencyFoldSecondOnly(path, i + 1, fs[1] \div 2, fs[2] \div 2,
                                            NodeHash(path[i], f_r), NodeHash(path[i], s_r),
                                            first, second)
         ELSE ConsistencyFoldSecondOnly(path, i + 1, f_n \div 2, s_n \div 2,
                                        f_r, NodeHash(s_r, path[i]), first, second)

\* The loop of ConsistencyProof::validate over path[i..], and the checks that
\* follow it
RECURSIVE ConsistencyFold(_, _, _, _, _, _, _, _)
ConsistencyFold(path, i, f_n, s_n, f_r, s_r, first, second) ==
    IF i > Len(path)
    THEN IF s_n # 0 THEN "PathTooLong"
         ELSE IF f_r # first.head \/ s_r # second.head THEN "HashMismatch"
         ELSE "Ok"
    ELSE IF s_n = 0 THEN "PathTooShort"
    ELSE IF f_n % 2 = 1 \/ f_n = s_n
         THEN LET fs == ShiftWhileEven(f_n, s_n)
              IN  ConsistencyFold(path, i + 1, fs[1] \div 2, fs[2] \div 2,
                                  NodeHash(path[i], f_r), NodeHash(path[i], s_r),
                                  first, second)
         ELSE ConsistencyFold(path, i + 1, f_n \div 2, s_n \div 2,
                              f_r, NodeHash(s_r, path[i]), first, second)

\* ConsistencyProof::validate: "Ok" or the ProofValidationError.  path[0] is
\* out of bounds on an empty path ("Panic").  On a first tree head of size 0,
\* first.tree_size - 1 overflows: a panic with overflow checks; without them
\* f_n wraps to 2^64 - 1 and the first loop shifts f_n and s_n 64 times, to 0
ConsistencyProof_validate(proof_path, first, second) ==
    IF first.tree_size > second.tree_size THEN "InvalidTreeSize"
    ELSE IF first = second /\ proof_path = <<>> THEN "Ok"
    ELSE IF first.tree_size = 0 /\ overflow_checks THEN "Panic"
    ELSE LET path == IF is_power_of_two(first.tree_size)
                     THEN <<first.head>> \o proof_path
                     ELSE proof_path
             fs == IF first.tree_size = 0
                   THEN <<0, 0>>
                   ELSE ShiftWhileOdd(first.tree_size - 1, second.tree_size - 1)
         IN  IF path = <<>> THEN "Panic"
             ELSE ConsistencyFold(path, 2, fs[1], fs[2], path[1], path[1],
                                  first, second)

-----------------------------------------------------------------------------
(* Tasks and values of the log verifier and of the deduplication client *)

\* the tasks that call one deduplication client concurrently
Callers == {1, 2, 3}

\* the positions of the SCTs embedded in the leaf certificate
SctIds == {1, 2}

\* the logs registered with the scanner, and a log id it does not know
ScanLogs == {"L1", "L2"}
UnknownLog == "Lx"

\* no error_description
NoError == [step |-> "none", sct |-> 0]

\* SctReport::new, with the position of the SCT the report is made for
SctReport_new(i) ==
    [sct |-> i, cached |-> FALSE, signature_validation_time |-> FALSE,
     log_name |-> "none", latest_sth |-> -1, inclusion_proof |-> -1,
     error_description |-> NoError]

\* the Client method a task calls: get for one, get_bin for another, either for the third
KindsOf(c) == IF c = 1 THEN {"get"} ELSE IF c = 2 THEN {"get_bin"} ELSE {"get", "get_bin"}

\* DeduplicationKey: (url, params)
Keys == {"a", "b"}

\* enum Response, with the number of the inner call that produced it
Response(type, n) == [type |-> type, fetch |-> n]

\* no response
NoResponse == Response("none", 0)

\* the tasks that call one log verifier concurrently
Tasks == {1, 2}

\* no STH: Option::None of sth_store.last()
NoSth == TreeHead(-1, None)

\* the key ids of root certificates; -1: the root has neither an authority nor
\* a subject key identifier
RootKeyIds == {1}

\* the times SCTs are issued at; the log signs its tree head of size n at time n
LeadTimes == {0, 2}

\* the SCTs of leads, by the fields SignedCertificateTimestamp::hash covers; the
\* signature is given by the log entry it signs (0: it signs no entry)
LeadScts == [log_id : {"L1", UnknownLog}, timestamp : LeadTimes, leaf_index : {-1, 0},
             signed : {0, 1}]

\* Lead::EmbeddedSct { sct, chain }: the chain is given by the log entry it
\* makes with the SCT (entry 1 is in the log, entry 2 is not) and by the key
\* id of its root
Leads == [sct : LeadScts, entry : Values, root : RootKeyIds \cup {-1}]

NoLead == [sct |-> [log_id |-> UnknownLog, timestamp |-> 0, leaf_index |-> -1, signed |-> 0],
           entry |-> 1, root |-> -1]

\* CtLog::validate_sct_v1(chain, sct): the signature verifies under the log key
\* over the entry the chain makes with the SCT
validate_sct_v1(l) == l.sct.signed = l.entry

\* nothing done yet by an investigation
NoTrail == [requested |-> FALSE, failed |-> FALSE, inclusion |-> FALSE, root |-> FALSE]

-----------------------------------------------------------------------------
(* The tree and its caller: the calls of the tests of tree/inclusion.rs and *)
(* tree/consistency.rs, in any order                                        *)

\* what a call returned: the operation, its outcome, whether the caller had
\* altered the proof, a leaf or a tree head before validating
Ret(o, status, tampered) == [op |-> o, status |-> status, tampered |-> tampered]

TreeInit ==
    /\ nodes = EmptyStore
    /\ leafs = <<>>
    /\ heads = {}
    /\ ret = Ret("new", "Ok", FALSE)

\* RequestDeduplicationClient::new, no caller yet
DedupIdle ==
    /\ requests = EmptyStore
    /\ dpc = [c \in Callers |-> "idle"]
    /\ dkey = [c \in Callers |-> "a"]
    /\ kind = [c \in Callers |-> "get"]
    /\ request = [c \in Callers |-> FALSE]
    /\ response = [c \in Callers |-> NoResponse]
    /\ chan = [c \in Callers |-> NoResponse]
    /\ got = [c \in Callers |-> NoResponse]
    /\ src = [c \in Callers |-> 0]
    /\ inner_calls = 0

\* no report is being collected
ScanIdle ==
    /\ embedded_scts = <<>>
    /\ log_stores = [l \in ScanLogs |-> EmptyStore]
    /\ spc = [i \in SctIds |-> "done"]
    /\ report = [i \in SctIds |-> SctReport_new(i)]
    /\ last_sth = [i \in SctIds |-> NoSth]
    /\ scts = <<>>
    /\ cpc = "returned"

\* the state of the log verifier before any task runs
SthIdle ==
    /\ sth_store = EmptyStore
    /\ pc = [t \in Tasks |-> "idle"]
    /\ op = [t \in Tasks |-> "none"]
    /\ new_sth = [t \in Tasks |-> NoSth]
    /\ old_sth = [t \in Tasks |-> NoSth]
    /\ chk = [t \in Tasks |-> "none"]
    /\ result = [t \in Tasks |-> "none"]
    /\ floor = [t \in Tasks |-> -1]
    /\ returned = -1
    /\ calls = 0

\* Scanner::new_with_client and LogBuilder::build: empty caches, no lead yet
LeadIdle ==
    /\ sct_cache = {}
    /\ root_keys = [l \in ScanLogs |-> {}]
    /\ node_cache = [l \in ScanLogs |-> EmptyStore]
    /\ lpc = "idle"
    /\ lead = NoLead
    /\ lsth = NoSth
    /\ lnew = NoSth
    /\ conclusion = "none"
    /\ trail = NoTrail

\* what a call returns before it is made
NotCalled == <<"NotCalled">>

\* no call is made and the stores are empty
\* no thread is in insert_entry
InsertIdle == inserts = <<>>

\* no check runs on the tile fetcher
FetchIdle ==
    /\ fetch_size = 0
    /\ fetched = {}
    /\ checks = <<>>

CallIdle ==
    /\ input = None
    /\ output = NotCalled
    /\ memory_store = <<>>
    /\ directory = <<>>
    /\ local_storage = <<>>

\* tree.insert_entry(v), called while the tree has fewer than max leaves
InsertEntry(v, max) ==
    /\ Len(leafs) < max
    /\ LET r == insert_entry(nodes, leafs, v)
       IN  /\ nodes' = r.nodes
           /\ leafs' = r.leafs
           /\ ret' = Ret("insert_entry", IF r.ok THEN "Ok" ELSE "Panic", FALSE)
    /\ UNCHANGED <<heads, treeOthers>>

\* let head = tree.recompute_tree_head()
RecomputeTreeHead ==
    LET r == recompute_tree_head(nodes, leafs)
    IN  /\ r.ok => Cardinality(heads \cup {r.head}) <= MaxHeads
        /\ nodes' = r.nodes
        /\ heads' = IF r.ok THEN heads \cup {r.head} ELSE heads
        /\ ret' = Ret("recompute_tree_head", IF r.ok THEN "Ok" ELSE "Panic", FALSE)
        /\ UNCHANGED <<leafs, treeOthers>>

\* The outcome of tree.get_audit_proof(head, index) followed by
\* proof.validate(head, leaf): the generation error, or validate's result
AuditOutcome(store, head, index, leaf_hash) ==
    LET p == get_audit_proof(store, head, index)
    IN  IF ~p.ok THEN p.err ELSE AuditProof_validate(p, head, leaf_hash)

\* The outcome of tree.get_consistency_proof(first, second) followed by
\* proof.validate(first, second)
ConsistencyOutcome(store, first, second) ==
    LET p == get_consistency_proof(store, first, second)
    IN  IF ~p.ok THEN p.err ELSE ConsistencyProof_validate(p.path, first, second)

\* tree.get_audit_proof(&head, i).unwrap().validate(&head, &v_i)
AuditCheck(head, index) ==
    /\ index < head.tree_size
    /\ ret' = Ret("audit", AuditOutcome(nodes, head, index, LeafHash(leafs[index + 1])), FALSE)
    /\ UNCHANGED <<nodes, leafs, heads, treeOthers>>

\* tree.get_consistency_proof(&first, &second).unwrap().validate(&first, &second)
ConsistencyCheck(first, second) ==
    /\ first.tree_size <= second.tree_size
    /\ ret' = Ret("consistency", ConsistencyOutcome(nodes, first, second), FALSE)
    /\ UNCHANGED <<nodes, leafs, heads, treeOthers>>

\* the hashes an altered proof or tree head may carry instead of the right
\* one: a hash of nothing in the tree, a leaf hash, or a hash of the proof
Replacements(path, head) ==
    {JunkHash, head.head} \cup {LeafHash(v) : v \in Values} \cup {path[i] : i \in 1..Len(path)}

\* proof.validate(&head, &leaf) on an audit proof of which one path hash was
\* replaced (pos >= 1), or with another leaf value (pos = 0)
AuditTamper(head, index, pos, h) ==
    /\ index < head.tree_size
    /\ LET p == get_audit_proof(nodes, head, index)
       IN  /\ p.ok
           /\ pos \in 0..Len(p.path)
           /\ h \in Replacements(p.path, head)
           /\ IF pos = 0
              THEN /\ h # LeafHash(leafs[index + 1])
                   /\ ret' = Ret("audit", AuditProof_validate(p, head, h), TRUE)
              ELSE /\ h # p.path[pos]
                   /\ ret' = Ret("audit",
                                 AuditProof_validate([p EXCEPT !.path[pos] = h], head,
                                                     LeafHash(leafs[index + 1])),
                                 TRUE)
    /\ UNCHANGED <<nodes, leafs, heads, treeOthers>>

\* proof.validate(&first, &second) on a consistency proof of which one path
\* hash was replaced (pos >= 1), or with the head of the first (pos = 0) or of
\* the second (pos = -1) tree head replaced
ConsistencyTamper(first, second, pos, h) ==
    /\ first.tree_size <= second.tree_size
    /\ LET p == get_consistency_proof(nodes, first, second)
       IN  /\ p.ok
           /\ pos \in (-1)..Len(p.path)
           /\ h \in Replacements(p.path, second)
           /\ CASE pos = -1 ->
                    /\ h # second.head
                    /\ ret' = Ret("consistency",
                                  ConsistencyProof_validate(p.path, first,
                                                            [second EXCEPT !.head = h]),
                                  TRUE)
                [] pos = 0 ->
                    /\ h # first.head
                    /\ ret' = Ret("consistency",
                                  ConsistencyProof_validate(p.path, [first EXCEPT !.head = h],
                                                            second),
                                  TRUE)
                [] OTHER ->
                    /\ h # p.path[pos]
                    /\ ret' = Ret("consistency",
                                  ConsistencyProof_validate([p.path EXCEPT ![pos] = h],
                                                            first, second),
                                  TRUE)
    /\ UNCHANGED <<nodes, leafs, heads, treeOthers>>

TreeNext ==
    \/ \E v \in Values : InsertEntry(v, MaxLeaves)
    \/ RecomputeTreeHead
    \/ \E head \in heads : \E index \in 0..(head.tree_size - 1) : AuditCheck(head, index)
    \/ \E first \in heads : \E second \in heads : ConsistencyCheck(first, second)

TamperNext ==
    \/ \E v \in Values : InsertEntry(v, TamperLeaves)
    \/ RecomputeTreeHead
    \/ \E head \in heads : \E index \in 0..(head.tree_size - 1) :
           \E pos \in 0..TamperLeaves : \E h \in Replacements(<<>>, head) :
               AuditTamper(head, index, pos, h)
    \/ \E first \in heads : \E second \in heads :
           \E pos \in (-1)..TamperLeaves : \E h \in Replacements(<<>>, second) :
               ConsistencyTamper(first, second, pos, h)

\* The tree heads of these two specifications have tree_size >= 1
\* (recompute_tree_head panics on the empty tree), so nothing overflows
TreeSpecInit ==
    /\ TreeInit
    /\ overflow_checks = TRUE
    /\ tiles = FALSE
    /\ SthIdle
    /\ DedupIdle
    /\ ScanIdle
    /\ LeadIdle
    /\ InsertIdle
    /\ FetchIdle
    /\ CallIdle

SpecTree == TreeSpecInit /\ [][TreeNext]_vars

SpecTamper == TreeSpecInit /\ [][TamperNext]_vars

-----------------------------------------------------------------------------
(* RFC 6962 2.1: the Merkle Tree Hash and the audit path, as reference *)

RECURSIVE LargestPow2Below(_, _)
LargestPow2Below(n, p) == IF 2 * p < n THEN LargestPow2Below(n, 2 * p) ELSE p

\* MTH(D[lo:hi]) over the leaf hashes of the values d (0-based, hi exclusive)
RECURSIVE MTH(_, _, _)
MTH(d, lo, hi) ==
    IF hi - lo = 1
    THEN <<0, d[lo + 1]>>
    ELSE LET k == LargestPow2Below(hi - lo, 1)
         IN  <<1>> \o MTH(d, lo, lo + k) \o MTH(d, lo + k, hi)

\* PATH(m, D[lo:hi]), leaf to root
RECURSIVE RfcPath(_, _, _, _)
RfcPath(d, m, lo, hi) ==
    IF hi - lo = 1
    THEN <<>>
    ELSE LET k == LargestPow2Below(hi - lo, 1)
         IN  IF m < lo + k
             THEN Append(RfcPath(d, m, lo, lo + k), MTH(d, lo + k, hi))
             ELSE Append(RfcPath(d, m, lo + k, hi), MTH(d, lo, lo + k))

\* the keys recompute_tree_head folds for a tree of the given size: the
\* unbalanced nodes of the right spine
RECURSIVE SpineKeys(_)
SpineKeys(key) ==
    IF is_power_of_two(key.end - key.start)
    THEN {}
    ELSE {key} \cup SpineKeys(NodeKey(key.start + LargestPow2Below(key.end - key.start, 1),
                                      key.end))

-----------------------------------------------------------------------------
(* Claims on the Merkle tree *)

\* C6: for every tree head TH snapshotted by recompute_tree_head and every
\* index i below its size, get_audit_proof(TH, i) succeeds, its path is the RFC
\* 6962 audit path in leaf-to-root order, and validate(TH, v_i) returns Ok; for
\* a tree of 7 leaves the paths of i = 0, 3, 4, 6 have lengths 3, 3, 3, 2.
C6_AuditProofsValidate ==
    /\ \A th \in heads : \A i \in 0..(th.tree_size - 1) :
           LET p == get_audit_proof(nodes, th, i)
           IN  /\ p.ok
               /\ p.path = RfcPath(leafs, i, 0, th.tree_size)
               /\ AuditProof_validate(p, th, LeafHash(leafs[i + 1])) = "Ok"
               /\ (th.tree_size = 7 /\ i \in {0, 3, 4}) => Len(p.path) = 3
               /\ (th.tree_size = 7 /\ i = 6) => Len(p.path) = 2
    /\ (ret.op = "audit" /\ ~ret.tampered) => ret.status = "Ok"

\* C6 witness: an audit proof of a 7-leaf tree was generated and validated
C6_Witness ==
    /\ ret = Ret("audit", "Ok", FALSE)
    /\ Len(leafs) = 7
    /\ \E th \in heads : th.tree_size = 7

\* C7: every snapshot by recompute_tree_head after k leaves, 0 <= k <= n,
\* yields a tree head TH_k, and for every two snapshots k <= n
\* get_consistency_proof(TH_k, TH_n) succeeds and validates, with the empty
\* path for k = n, also after further insertions.
C7_ConsistencyFromZero ==
    /\ ~(ret.op = "recompute_tree_head" /\ ret.status = "Panic")
    /\ \A first \in heads : \A second \in heads :
           first.tree_size <= second.tree_size =>
               LET p == get_consistency_proof(nodes, first, second)
               IN  /\ p.ok
                   /\ ConsistencyProof_validate(p.path, first, second) = "Ok"
                   /\ first.tree_size = second.tree_size => p.path = <<>>
    /\ (ret.op = "consistency" /\ ~ret.tampered) => ret.status = "Ok"

\* The part of C7 for snapshots of a non-empty tree (1 <= k <= n)
ConsistencyFromOne ==
    /\ \A first \in heads : \A second \in heads :
           first.tree_size <= second.tree_size =>
               LET p == get_consistency_proof(nodes, first, second)
               IN  /\ p.ok
                   /\ ConsistencyProof_validate(p.path, first, second) = "Ok"
                   /\ first.tree_size = second.tree_size => p.path = <<>>
    /\ (ret.op = "consistency" /\ ~ret.tampered) => ret.status = "Ok"

\* C8: after n >= 1 insertions recompute_tree_head returns tree_size = n and the
\* RFC 6962 Merkle Tree Hash of the leaf hashes, and the node store holds the
\* hash of every right-spine node it folded.
C8_TreeHeadIsMerkleTreeHash ==
    /\ \A th \in heads :
           /\ th.tree_size \in 1..Len(leafs)
           /\ th.head = MTH(leafs, 0, th.tree_size)
           /\ \A k \in SpineKeys(full_range(th.tree_size)) :
                  k \in DOMAIN nodes /\ nodes[k] = MTH(leafs, k.start, k.end)
    /\ (ret.op = "recompute_tree_head" /\ Len(leafs) >= 1) =>
           /\ ret.status = "Ok"
           /\ \E th \in heads : th.tree_size = Len(leafs)

\* C8 witness: the head of a 7-leaf tree (three folds) was recomputed
C8_Witness ==
    /\ ret = Ret("recompute_tree_head", "Ok", FALSE)
    /\ Len(leafs) = 7
    /\ \E th \in heads : th.tree_size = 7

\* C9: an audit proof fails validation when the leaf or one hash of its path is
\* replaced by a different value, and a consistency proof fails validation when
\* one hash of its path or the head of either tree head is replaced.
C9_TamperedProofsRejected ==
    /\ \A th \in heads : \A i \in 0..(th.tree_size - 1) :
           LET p == get_audit_proof(nodes, th, i)
               R == Replacements(p.path, th)
           IN  /\ \A h \in R \ {LeafHash(leafs[i + 1])} :
                      AuditProof_validate(p, th, h) # "Ok"
               /\ \A pos \in 1..Len(p.path) : \A h \in R \ {p.path[pos]} :
                      AuditProof_validate([p EXCEPT !.path[pos] = h], th,
                                          LeafHash(leafs[i + 1])) # "Ok"
    /\ \A first \in heads : \A second \in heads :
           first.tree_size <= second.tree_size =>
               LET p == get_consistency_proof(nodes, first, second)
                   R == Replacements(p.path, second)
               IN  /\ \A h \in R \ {first.head} :
                          ConsistencyProof_validate(p.path, [first EXCEPT !.head = h],
                                                    second) # "Ok"
                   /\ \A h \in R \ {second.head} :
                          ConsistencyProof_validate(p.path, first,
                                                    [second EXCEPT !.head = h]) # "Ok"
                   /\ \A pos \in 1..Len(p.path) : \A h \in R \ {p.path[pos]} :
                          ConsistencyProof_validate([p.path EXCEPT ![pos] = h],
                                                    first, second) # "Ok"
    /\ ret.tampered => ret.status # "Ok"

\* C9 witness: an altered consistency proof between two different tree heads
\* was rejected for its hashes
C9_Witness ==
    /\ ret = Ret("consistency", "HashMismatch", TRUE)
    /\ \E first \in heads : \E second \in heads : first.tree_size < second.tree_size

-----------------------------------------------------------------------------
(* The log a verifier talks to.  The log is not trusted: it answers from    *)
(* either of two histories that share their first ForkAt entries (a forked  *)
(* log), or the request fails.                                              *)

Forks == {"A", "B"}

ForkLeaves(f) == [i \in 1..MaxLogSize |-> IF f = "A" \/ i <= ForkAt THEN 1 ELSE 2]

\* the root hash of the empty tree: SHA-256 of the empty string
EmptyRootHash == <<2>>

LogRoot(f, n) == IF n = 0 THEN EmptyRootHash ELSE MTH(ForkLeaves(f), 0, n)

\* the signed tree heads the log can serve
LogSths == {TreeHead(n, LogRoot(f, n)) : f \in Forks, n \in 0..MaxLogSize}

\* the node hashes of the first n entries of a history
LogNodes(f, n) ==
    [k \in {key \in {NodeKey(s, e) : s \in 0..n, e \in 0..n} : key.start < key.end}
        |-> MTH(ForkLeaves(f), k.start, k.end)]

\* how the log answers a request for a proof: from one of its histories, or
\* with a failure (connection error, error status, unparseable body)
Answers == Forks \cup {"fail"}

-----------------------------------------------------------------------------
(* The per-log STH verifier (luct-scanner/src/log.rs) *)

\* OrderedStore::last of the first (smallest) key
last_smallest(store) ==
    IF DOMAIN store = {}
    THEN NoSth
    ELSE store[CHOOSE k \in DOMAIN store : \A j \in DOMAIN store : k <= j]

\* OrderedStore::last: the value of the largest key, None on an empty store
last(store) ==
    IF DOMAIN store = {}
    THEN NoSth
    ELSE store[CHOOSE k \in DOMAIN store : \A j \in DOMAIN store : j <= k]

\* Result<(), _> of a check from what ConsistencyProof::validate returned
CheckResult(v) == IF v \in {"Ok", "Panic"} THEN v ELSE "Err"

\* CtClient::check_consistency_v1(first, second), the log answering the
\* get-sth-consistency request with `answer`
check_consistency_v1(first, second, answer) ==
    IF first.tree_size = second.tree_size
    THEN "Ok"
    ELSE LET a == IF first.tree_size < second.tree_size THEN first ELSE second
             b == IF first.tree_size < second.tree_size THEN second ELSE first
         IN  IF answer = "fail"
             THEN "Err"
             ELSE CheckResult(ConsistencyProof_validate(
                      ConsistencyPath(LogNodes(answer, b.tree_size), a, b).path, a, b))

\* TileFetcher::check_sth_consistency(old_sth, new_sth), the log answering the
\* tile requests with `answer`
check_sth_consistency(old, new, answer) ==
    IF old.tree_size = new.tree_size
    THEN "Ok"
    ELSE LET tile_nodes == IF answer = "fail"
                           THEN EmptyStore
                           ELSE LogNodes(answer, new.tree_size)
             proof == get_consistency_proof_async(tile_nodes, old, new)
         IN  IF ~proof.ok
             THEN "Err"
             ELSE CheckResult(ConsistencyProof_validate(proof.path, old, new))

\* the consistency check of update_sth
CheckConsistencyResult(old, new, answer) ==
    IF tiles
    THEN check_sth_consistency(old, new, answer)
    ELSE check_consistency_v1(old, new, answer)

\* A variant of update_sth that goes on to the insert whatever the check returned
AfterCheckUnchecked(outcome) == "insert"

\* update_sth after the check: `?` returns the error, Ok goes on to the insert
AfterCheck(outcome) == IF outcome = "Ok" THEN "insert" ELSE "done"

SthInit ==
    /\ TreeInit
    /\ overflow_checks \in BOOLEAN
    /\ tiles \in BOOLEAN
    /\ SthIdle
    /\ DedupIdle
    /\ ScanIdle
    /\ LeadIdle
    /\ InsertIdle
    /\ FetchIdle
    /\ CallIdle

\* a task calls latest_sth or update_sth
BeginCall(t, o) ==
    /\ pc[t] \in {"idle", "done"}
    /\ calls < MaxCalls
    /\ calls' = calls + 1
    /\ op' = [op EXCEPT ![t] = o]
    /\ pc' = [pc EXCEPT ![t] = IF o = "update_sth" THEN "fetch" ELSE "last"]
    /\ new_sth' = [new_sth EXCEPT ![t] = NoSth]
    /\ old_sth' = [old_sth EXCEPT ![t] = NoSth]
    /\ chk' = [chk EXCEPT ![t] = "none"]
    /\ result' = [result EXCEPT ![t] = "none"]
    /\ floor' = [floor EXCEPT ![t] = returned]
    /\ UNCHANGED <<sth_store, tiles, returned, sthOthers, overflow_checks>>

\* get_sth().await? completes: the log's STH (signature validated), or an error
GetSth(t, sth) ==
    /\ pc[t] = "fetch"
    /\ IF sth = NoSth
       THEN /\ pc' = [pc EXCEPT ![t] = "done"]
            /\ result' = [result EXCEPT ![t] = "Err"]
            /\ UNCHANGED new_sth
       ELSE /\ pc' = [pc EXCEPT ![t] = IF op[t] = "update_sth" THEN "last" ELSE "insert"]
            /\ new_sth' = [new_sth EXCEPT ![t] = sth]
            /\ UNCHANGED result
    /\ UNCHANGED <<sth_store, tiles, op, old_sth, chk, floor, returned, calls,
                   sthOthers, overflow_checks>>

\* what a completed latest_sth call returned: the stored STH, or the fetched one
ReturnedSth(t) == IF old_sth[t] # NoSth THEN old_sth[t] ELSE new_sth[t]

Max(a, b) == IF a >= b THEN a ELSE b

\* self.log.sth_store.last(): of update_sth after the fetch, of latest_sth first
ReadLast(t) ==
    /\ pc[t] = "last"
    /\ LET old == last(sth_store)
       IN  /\ old_sth' = [old_sth EXCEPT ![t] = old]
           /\ IF op[t] = "update_sth"
              THEN /\ pc' = [pc EXCEPT ![t] = IF old = NoSth THEN "insert" ELSE "check"]
                   /\ UNCHANGED <<result, returned>>
              ELSE IF old = NoSth
                   THEN /\ pc' = [pc EXCEPT ![t] = "fetch"]
                        /\ UNCHANGED <<result, returned>>
                   ELSE /\ pc' = [pc EXCEPT ![t] = "done"]
                        /\ result' = [result EXCEPT ![t] = "Ok"]
                        /\ returned' = Max(returned, old.tree_size)
    /\ UNCHANGED <<sth_store, tiles, op, new_sth, chk, floor, calls,
                   sthOthers, overflow_checks>>

\* the consistency check of update_sth completes
CheckConsistency(t, answer) ==
    /\ pc[t] = "check"
    /\ LET outcome == CheckConsistencyResult(old_sth[t], new_sth[t], answer)
       IN  /\ chk' = [chk EXCEPT ![t] = outcome]
           /\ pc' = [pc EXCEPT ![t] = AfterCheck(outcome)]
           /\ result' = [result EXCEPT ![t] = IF outcome = "Ok" THEN "none" ELSE outcome]
    /\ UNCHANGED <<sth_store, tiles, op, new_sth, old_sth, floor, returned, calls,
                   sthOthers, overflow_checks>>

\* self.log.sth_store.insert(sth.tree_size(), sth) and the Ok return
InsertSth(t) ==
    /\ pc[t] = "insert"
    /\ sth_store' = StoreInsert(sth_store, new_sth[t].tree_size, new_sth[t])
    /\ pc' = [pc EXCEPT ![t] = "done"]
    /\ result' = [result EXCEPT ![t] = "Ok"]
    /\ returned' = IF op[t] = "latest_sth"
                   THEN Max(returned, new_sth[t].tree_size)
                   ELSE returned
    /\ UNCHANGED <<tiles, op, new_sth, old_sth, chk, floor, calls,
                   sthOthers, overflow_checks>>

SthNext ==
    \/ \E t \in Tasks : \E o \in {"latest_sth", "update_sth"} : BeginCall(t, o)
    \/ \E t \in Tasks : \E sth \in LogSths \cup {NoSth} : GetSth(t, sth)
    \/ \E t \in Tasks : ReadLast(t)
    \/ \E t \in Tasks : \E answer \in Answers : CheckConsistency(t, answer)
    \/ \E t \in Tasks : InsertSth(t)

SpecSth == SthInit /\ [][SthNext]_vars

-----------------------------------------------------------------------------
(* Claims on the STH verifier *)

\* C1: a step changes the STH store only when it is the insert of a fetched
\* STH by a call that returns Ok, and in update_sth only when the store had
\* reported no last STH or the consistency check of the fetched STH against the
\* STH the store reported as last returned Ok; a step in which a call ends with
\* an error leaves the store unchanged, and a call that ended with an error
\* went through no insert.
C1_InsertOnlyAfterCheck ==
    [][/\ sth_store' # sth_store =>
              \E t \in Tasks :
                  /\ pc[t] = "insert" /\ pc'[t] = "done" /\ result'[t] = "Ok"
                  /\ sth_store' = StoreInsert(sth_store, new_sth[t].tree_size, new_sth[t])
                  /\ new_sth[t] \in LogSths
                  /\ (op[t] = "update_sth" /\ old_sth[t] # NoSth) =>
                         /\ chk[t] = "Ok"
                         /\ \E answer \in Answers :
                                CheckConsistencyResult(old_sth[t], new_sth[t], answer) = "Ok"
       /\ \A t \in Tasks :
              (result'[t] # "Ok" /\ pc'[t] = "done" /\ pc[t] # "done") =>
                  /\ sth_store' = sth_store
                  /\ pc[t] # "insert"
                  /\ (op[t] = "update_sth" /\ pc[t] = "check") => result'[t] = chk'[t]
      ]_vars

\* C1 witness: an update_sth call inserted a larger STH after its consistency
\* check against the stored one returned Ok
C1_Witness ==
    \E t \in Tasks :
        /\ op[t] = "update_sth" /\ pc[t] = "done" /\ result[t] = "Ok"
        /\ old_sth[t] # NoSth /\ chk[t] = "Ok"
        /\ old_sth[t].tree_size < new_sth[t].tree_size
        /\ StoreGet(sth_store, new_sth[t].tree_size) = new_sth[t]

\* C2: the tree size a latest_sth call returns is at least every tree size a
\* latest_sth call had returned when the call began.
C2_LatestSthMonotone ==
    \A t \in Tasks :
        (op[t] = "latest_sth" /\ pc[t] = "done" /\ result[t] = "Ok") =>
            ReturnedSth(t).tree_size >= floor[t]

\* C2 witness: latest_sth returned the larger STH again after update_sth had
\* stored a smaller one the log served
C2_Witness ==
    \E t \in Tasks :
        /\ op[t] = "latest_sth" /\ pc[t] = "done" /\ result[t] = "Ok"
        /\ floor[t] >= 1
        /\ ReturnedSth(t).tree_size = floor[t]
        /\ \E k \in DOMAIN sth_store : k < floor[t]

\* C3: an update_sth call that fetched an STH of the tree size of the last
\* stored STH with a different root hash ends with an error, its consistency
\* check did not return Ok, and the store still holds the old STH at that size.
C3_SameSizeForkRejected ==
    \A t \in Tasks :
        (/\ op[t] = "update_sth" /\ pc[t] = "done"
         /\ old_sth[t] # NoSth
         /\ old_sth[t].tree_size = new_sth[t].tree_size
         /\ old_sth[t].head # new_sth[t].head) =>
            /\ result[t] = "Err"
            /\ chk[t] # "Ok"
            /\ StoreGet(sth_store, old_sth[t].tree_size) # new_sth[t]

-----------------------------------------------------------------------------
(* RequestDeduplicationClient (luct-client/src/impls/deduplication.rs) *)

\* BTreeMap::remove
StoreRemove(store, key) == [k \in (DOMAIN store) \ {key} |-> store[k]]

\* what the inner client's get / get_bin, wrapped by the getter, can produce
InnerResponses(kd, n) ==
    {Response(IF kd = "get" THEN "String" ELSE "Binary", n), Response("Error", n)}

\* A variant of the locked block that never looks for an ongoing request
RegisterAlways(reqs, key, c) ==
    [requests |-> StoreInsert(reqs, key, <<c>>), request |-> TRUE]

\* the locked block of wait_or_try_get: push the sender to an ongoing request
\* (request None), or insert vec![tx] and build the request future
Register(reqs, key, c) ==
    IF key \in DOMAIN reqs
    THEN [requests |-> StoreInsert(reqs, key, Append(reqs[key], c)), request |-> FALSE]
    ELSE [requests |-> StoreInsert(reqs, key, <<c>>), request |-> TRUE]

\* A variant of the broadcast that answers the first sender only
BroadcastFirstOnly(ch, senders, r) ==
    [c \in Callers |-> IF senders # <<>> /\ c = senders[1] THEN r ELSE ch[c]]

\* for tx in senders { tx.send(response.clone()) }
Broadcast(ch, senders, r) ==
    [c \in Callers |-> IF \E i \in 1..Len(senders) : senders[i] = c THEN r ELSE ch[c]]

\* what rx.await yields once the sender was dropped without a send
Closed == Response("Closed", 0)

\* the callers whose future was dropped: their receivers are gone
Dropped == {c \in Callers : dpc[c] = "dropped"}

\* the requests mutex is poisoned: a task panicked while holding its guard
Poisoned == \E c \in Callers : dpc[c] = "send_panicked"

\* the position of the first sender whose receiver is gone (0 when there is
\* none): tx.send(..).unwrap() panics there
FirstClosed(senders) ==
    IF \E i \in 1..Len(senders) : senders[i] \in Dropped
    THEN CHOOSE i \in 1..Len(senders) :
             /\ senders[i] \in Dropped
             /\ \A j \in 1..(i - 1) : senders[j] \notin Dropped
    ELSE 0

\* the match of get / get_bin on what wait_or_try_get returned
ClientResult(kd, r) ==
    IF r.type = "Error" THEN "Err"
    ELSE IF (kd = "get" /\ r.type = "String") \/ (kd = "get_bin" /\ r.type = "Binary")
         THEN "Ok"
         ELSE "Panic"

DedupInit ==
    /\ TreeInit
    /\ overflow_checks = TRUE
    /\ tiles = FALSE
    /\ SthIdle
    /\ DedupIdle
    /\ ScanIdle
    /\ LeadIdle
    /\ InsertIdle
    /\ FetchIdle
    /\ CallIdle

\* a task calls get / get_bin: wait_or_try_get up to its first await
Call(c, key, kd) ==
    /\ dpc[c] \in {"idle", "returned"}
    /\ key \in DOMAIN requests \/ inner_calls < MaxInnerCalls
    /\ IF Poisoned
       THEN \* self.requests.lock().unwrap() panics
            /\ dpc' = [dpc EXCEPT ![c] = "panicked"]
            /\ request' = [request EXCEPT ![c] = FALSE]
            /\ UNCHANGED <<requests, inner_calls, src>>
       ELSE LET reg == Register(requests, key, c)
            IN  /\ requests' = reg.requests
                /\ request' = [request EXCEPT ![c] = reg.request]
                /\ dpc' = [dpc EXCEPT ![c] = IF reg.request THEN "fetching" ELSE "waiting"]
                /\ inner_calls' = IF reg.request THEN inner_calls + 1 ELSE inner_calls
                /\ src' = [src EXCEPT ![c] = IF reg.request
                                              THEN inner_calls + 1
                                              ELSE src[requests[key][1]]]
    /\ dkey' = [dkey EXCEPT ![c] = key]
    /\ kind' = [kind EXCEPT ![c] = kd]
    /\ response' = [response EXCEPT ![c] = NoResponse]
    /\ chan' = [chan EXCEPT ![c] = NoResponse]
    /\ got' = [got EXCEPT ![c] = NoResponse]
    /\ UNCHANGED dedupOthers

\* getter.await completes: the inner call returned
InnerDone(c, r) ==
    /\ dpc[c] = "fetching"
    /\ response' = [response EXCEPT ![c] = r]
    /\ dpc' = [dpc EXCEPT ![c] = "draining"]
    /\ UNCHANGED <<requests, dkey, kind, request, chan, got, src, inner_calls, dedupOthers>>

\* the request future after the getter: lock, remove the entry, send the
\* response to every sender; then rx.await of the initiator returns its own.
\* The lock panics on a poisoned mutex; a send to a dropped receiver fails and
\* its unwrap panics with the guard held: the senders not yet served are
\* dropped with the Vec and the mutex is poisoned.
Drain(c) ==
    /\ dpc[c] = "draining"
    /\ dkey[c] \in DOMAIN requests
    /\ IF Poisoned
       THEN /\ dpc' = [dpc EXCEPT ![c] = "panicked"]
            /\ UNCHANGED <<requests, got, chan>>
       ELSE LET senders == requests[dkey[c]]
                k == FirstClosed(senders)
            IN  /\ requests' = StoreRemove(requests, dkey[c])
                /\ IF k = 0
                   THEN LET sent == Broadcast(chan, senders, response[c])
                        IN  /\ got' = [got EXCEPT ![c] = sent[c]]
                            /\ chan' = [sent EXCEPT ![c] = NoResponse]
                            /\ dpc' = [dpc EXCEPT ![c] = "returned"]
                   ELSE LET sent == Broadcast(chan, SubSeq(senders, 1, k - 1), response[c])
                        IN  /\ chan' = [w \in Callers |->
                                           IF \E i \in (k + 1)..Len(senders) : senders[i] = w
                                           THEN Closed
                                           ELSE IF w = c THEN NoResponse ELSE sent[w]]
                            /\ dpc' = [dpc EXCEPT ![c] = "send_panicked"]
                            /\ UNCHANGED got
    /\ response' = [response EXCEPT ![c] = NoResponse]
    /\ UNCHANGED <<dkey, kind, request, src, inner_calls, dedupOthers>>

\* rx.await of a caller that made no request returns what was sent to it; the
\* expect on it panics when the sender was dropped without a send
Receive(c) ==
    /\ dpc[c] = "waiting"
    /\ chan[c] # NoResponse
    /\ IF chan[c] = Closed
       THEN /\ dpc' = [dpc EXCEPT ![c] = "panicked"]
            /\ UNCHANGED got
       ELSE /\ got' = [got EXCEPT ![c] = chan[c]]
            /\ dpc' = [dpc EXCEPT ![c] = "returned"]
    /\ chan' = [chan EXCEPT ![c] = NoResponse]
    /\ UNCHANGED <<requests, dkey, kind, request, response, src, inner_calls, dedupOthers>>

\* the future of a call is dropped at an await: its receiver goes, and with an
\* initiator's future go the request future and the getter in it
Drop(c) ==
    /\ dpc[c] \in {"fetching", "draining", "waiting"}
    /\ dpc' = [dpc EXCEPT ![c] = "dropped"]
    /\ response' = [response EXCEPT ![c] = NoResponse]
    /\ chan' = [chan EXCEPT ![c] = NoResponse]
    /\ UNCHANGED <<requests, dkey, kind, request, got, src, inner_calls, dedupOthers>>

DedupNext ==
    \/ \E c \in Callers : \E key \in Keys : \E kd \in KindsOf(c) : Call(c, key, kd)
    \/ \E c \in Callers : \E r \in InnerResponses(kind[c], src[c]) : InnerDone(c, r)
    \/ \E c \in Callers : Drain(c)
    \/ \E c \in Callers : Receive(c)

\* A task whose future is ready is polled again: the initiator goes on to the
\* broadcast once the getter has completed, a waiter returns once its channel
\* holds the response.  The inner call itself need not complete.
SpecDedup ==
    /\ DedupInit
    /\ [][DedupNext]_vars
    /\ \A c \in Callers : WF_vars(Drain(c)) /\ WF_vars(Receive(c))

DropNext ==
    \/ DedupNext
    \/ \E c \in Callers : Drop(c)

\* As SpecDedup, with callers that may be dropped at an await; here every
\* inner call in flight completes.
SpecDedupDrop ==
    /\ DedupInit
    /\ [][DropNext]_vars
    /\ \A c \in Callers :
           /\ WF_vars(Drain(c)) /\ WF_vars(Receive(c))
           /\ WF_vars(\E r \in InnerResponses(kind[c], src[c]) : InnerDone(c, r))

-----------------------------------------------------------------------------
(* Claims on the deduplication client *)

\* C4: at every moment at most one caller per key has a call to the inner
\* client in flight, that caller is the one that inserted the key's entry, and
\* every caller that found an entry for its key is waiting on its channel
\* without a request of its own.
C4_OneInnerCallPerKey ==
    /\ \A key \in Keys :
           Cardinality({c \in Callers : dpc[c] = "fetching" /\ dkey[c] = key}) <= 1
    /\ \A c \in Callers :
           dpc[c] \in {"fetching", "draining"} =>
               /\ request[c]
               /\ dkey[c] \in DOMAIN requests
               /\ requests[dkey[c]][1] = c
    /\ \A key \in DOMAIN requests : \A i \in 2..Len(requests[key]) :
           /\ dpc[requests[key][i]] = "waiting"
           /\ ~request[requests[key][i]]
           /\ src[requests[key][i]] = src[requests[key][1]]
    /\ Cardinality({src[c] : c \in {x \in Callers : request[x]}})
           = Cardinality({x \in Callers : request[x]})

\* C4 witness: two callers are attached as waiters to the entry of a key whose
\* single inner call, made by a third caller, is in flight
C4_Witness ==
    \E key \in Keys : \E c \in Callers :
        /\ dpc[c] = "fetching" /\ dkey[c] = key
        /\ Len(requests[key]) = 3
        /\ \A w \in Callers \ {c} : dpc[w] = "waiting" /\ dkey[w] = key

-----------------------------------------------------------------------------
(* Scanner::collect_report (luct-scanner/src/lib.rs) *)

\* the SCTs a certificate can embed: the log id, the Merkle tree leaf the chain
\* and the SCT hash to (entry 1 is in the log, entry 2 is not), and the leaf
\* index extension (-1: absent)
Scts == [log_id : ScanLogs \cup {UnknownLog}, leaf : Values, leaf_index : {-1, 0}]

\* what the log can answer to get-proof-by-hash: a failure, the audit proof of
\* an entry of one of its histories, or a proof of index 0 with an empty path
ProofAnswers(sth) ==
    {[ok |-> FALSE, err |-> "fail", index |-> 0, path |-> <<>>],
     [ok |-> TRUE, err |-> "", index |-> 0, path |-> <<>>]}
    \cup {get_audit_proof(LogNodes(f, sth.tree_size), sth, j) :
              f \in Forks, j \in 0..(sth.tree_size - 1)}

\* CtClient::check_sct_inclusion_v1(sct, sth, leaf), the log answering the
\* get-proof-by-hash request with `proof`
check_sct_inclusion_v1(sth, leaf_hash, proof) ==
    IF ~proof.ok
    THEN "Err"
    ELSE CheckResult(AuditProof_validate(proof, sth, leaf_hash))

\* TileFetcher::check_embdedded_sct_inclusion(sct, sth, leaf), the log
\* answering the tile requests with `answer`
check_embdedded_sct_inclusion(sct, sth, leaf_hash, answer) ==
    IF sct.leaf_index = -1
    THEN "Err"
    ELSE LET tile_nodes == IF answer = "fail"
                           THEN EmptyStore
                           ELSE LogNodes(answer, sth.tree_size)
             proof == get_audit_proof(tile_nodes, sth, sct.leaf_index)
         IN  IF ~proof.ok
             THEN "Err"
             ELSE CheckResult(AuditProof_validate(proof, sth, leaf_hash))

\* ScannerLog::check_sct_inclusion(sct, sth, leaf): the tile fetcher if the log
\* is a tiling log, else the JSON check_sct_inclusion_v1
check_sct_inclusion(sct, sth, answer, proof) ==
    IF tiles
    THEN check_embdedded_sct_inclusion(sct, sth, LeafHash(sct.leaf), answer)
    ELSE check_sct_inclusion_v1(sth, LeafHash(sct.leaf), proof)

\* report.error_description(..): the error of a step of the SCT at position i
WithError(rep, step, i) == [rep EXCEPT !.error_description = [step |-> step, sct |-> i]]

\* collect_embedded_sct_report from the STH on: record it, build the leaf, and
\* start the inclusion check
AfterSth(i, rep, sth, leaf_ok) ==
    LET rep2 == [rep EXCEPT !.latest_sth = sth.tree_size]
    IN  IF ~leaf_ok
        THEN [report |-> WithError(rep2, "as_leaf_v1", i), spc |-> "done", last_sth |-> sth]
        ELSE [report |-> rep2, spc |-> "inclusion", last_sth |-> sth]

ScanInit ==
    /\ TreeInit
    /\ overflow_checks \in BOOLEAN
    /\ tiles \in BOOLEAN
    /\ SthIdle
    /\ DedupIdle
    /\ LeadIdle
    /\ InsertIdle
    /\ FetchIdle
    /\ CallIdle
    /\ embedded_scts \in [SctIds -> Scts]
    /\ log_stores = [l \in ScanLogs |-> EmptyStore]
    /\ spc = [i \in SctIds |-> "start"]
    /\ report = [i \in SctIds |-> SctReport_new(i)]
    /\ last_sth = [i \in SctIds |-> NoSth]
    /\ scts = <<>>
    /\ cpc = "running"

\* the first poll of collect_embedded_sct_report, up to its first await
StartSct(i, sig_ok, leaf_ok) ==
    /\ cpc = "running"
    /\ spc[i] = "start"
    /\ LET sct == embedded_scts[i]
           rep1 == [report[i] EXCEPT !.log_name = sct.log_id]
           rep2 == [rep1 EXCEPT !.signature_validation_time = TRUE]
       IN  IF sct.log_id \notin ScanLogs
           THEN /\ report' = [report EXCEPT ![i] = WithError(report[i], "no_log", i)]
                /\ spc' = [spc EXCEPT ![i] = "done"]
                /\ UNCHANGED last_sth
           ELSE IF ~sig_ok
           THEN /\ report' = [report EXCEPT ![i] = WithError(rep1, "validate_sct_v1", i)]
                /\ spc' = [spc EXCEPT ![i] = "done"]
                /\ UNCHANGED last_sth
           ELSE IF last(log_stores[sct.log_id]) = NoSth
           THEN /\ report' = [report EXCEPT ![i] = rep2]
                /\ spc' = [spc EXCEPT ![i] = "get_sth"]
                /\ UNCHANGED last_sth
           ELSE LET next == AfterSth(i, rep2, last(log_stores[sct.log_id]), leaf_ok)
                IN  /\ report' = [report EXCEPT ![i] = next.report]
                    /\ spc' = [spc EXCEPT ![i] = next.spc]
                    /\ last_sth' = [last_sth EXCEPT ![i] = next.last_sth]
    /\ UNCHANGED <<embedded_scts, log_stores, scts, cpc, tiles, scanOthers>>

\* get_sth of latest_sth completes on an empty store: the error is recorded, or
\* the STH is inserted and the report goes on
SthFetched(i, sth, leaf_ok) ==
    /\ cpc = "running"
    /\ spc[i] = "get_sth"
    /\ IF sth = NoSth
       THEN /\ report' = [report EXCEPT ![i] = WithError(report[i], "latest_sth", i)]
            /\ spc' = [spc EXCEPT ![i] = "done"]
            /\ UNCHANGED <<last_sth, log_stores>>
       ELSE LET l == embedded_scts[i].log_id
                next == AfterSth(i, report[i], sth, leaf_ok)
            IN  /\ log_stores' = [log_stores EXCEPT
                                      ![l] = StoreInsert(log_stores[l], sth.tree_size, sth)]
                /\ report' = [report EXCEPT ![i] = next.report]
                /\ spc' = [spc EXCEPT ![i] = next.spc]
                /\ last_sth' = [last_sth EXCEPT ![i] = next.last_sth]
    /\ UNCHANGED <<embedded_scts, scts, cpc, tiles, scanOthers>>

\* the inclusion check completes: Ok and Err end the future with its report, a
\* panic of AuditProof::validate unwinds through join_all and collect_report
InclusionChecked(i, answer, proof) ==
    /\ cpc = "running"
    /\ spc[i] = "inclusion"
    /\ LET outcome == check_sct_inclusion(embedded_scts[i], last_sth[i], answer, proof)
       IN  IF outcome = "Panic"
           THEN /\ cpc' = "panicked"
                /\ UNCHANGED <<report, spc>>
           ELSE /\ report' = [report EXCEPT ![i] =
                                  IF outcome = "Ok"
                                  THEN [report[i] EXCEPT !.inclusion_proof = last_sth[i].tree_size]
                                  ELSE WithError(report[i], "check_sct_inclusion", i)]
                /\ spc' = [spc EXCEPT ![i] = "done"]
                /\ UNCHANGED cpc
    /\ UNCHANGED <<embedded_scts, log_stores, last_sth, scts, tiles, scanOthers>>

\* join_all returns the outputs in the order of its input futures
JoinAll ==
    /\ cpc = "running"
    /\ \A i \in SctIds : spc[i] = "done"
    /\ scts' = [i \in SctIds |-> report[i]]
    /\ cpc' = "returned"
    /\ UNCHANGED <<embedded_scts, log_stores, spc, report, last_sth, tiles, scanOthers>>

ScanNext ==
    \/ \E i \in SctIds : \E sig_ok \in BOOLEAN : \E leaf_ok \in BOOLEAN :
           StartSct(i, sig_ok, leaf_ok)
    \/ \E i \in SctIds : \E sth \in LogSths \cup {NoSth} : \E leaf_ok \in BOOLEAN :
           SthFetched(i, sth, leaf_ok)
    \/ \E i \in SctIds : \E answer \in Answers : \E proof \in ProofAnswers(last_sth[i]) :
           InclusionChecked(i, answer, proof)
    \/ JoinAll

SpecScan == ScanInit /\ [][ScanNext]_vars

-----------------------------------------------------------------------------
(* Claims on the scanner *)

\* the reports are one per SCT, in extraction order, each with the errors of
\* its own steps only
ReportsInExtractionOrder ==
    /\ \A i \in SctIds :
           /\ report[i].sct = i
           /\ report[i].error_description.sct \in {0, i}
           /\ report[i].log_name \in {"none", embedded_scts[i].log_id}
    /\ cpc = "returned" =>
           /\ DOMAIN scts = SctIds
           /\ \A i \in SctIds : scts[i] = report[i]

\* C10: collect_report is never aborted by a step of a per-SCT check, and when
\* it returns, Report.scts holds one SctReport per embedded SCT in extraction
\* order, each carrying only the error of a step of its own SCT.
C10_ReportPerSctNeverAborted ==
    /\ cpc # "panicked"
    /\ ReportsInExtractionOrder

-----------------------------------------------------------------------------
(* Errors and their severity (luct-core/src/errors.rs) *)

\* how a request to the log fails: no connection, a status other than 200, or
\* a body that does not parse
Failures == {"ConnectionError", "ResponseError", "JsonError"}
\* the failures of the transport
TransportFailures == {"ConnectionError", "ResponseError"}

\* enum ScannerError, by the error it wraps
ClientError(k) == [type |-> "ClientError", kind |-> k]
TilingError(k) == [type |-> "TilingError", kind |-> k]
CertificateError(k) == [type |-> "CertificateError", kind |-> k]
NoScannerError == [type |-> "none", kind |-> "none"]

\* impl CheckSeverity for CodecError
CodecError_severity == "Unsafe"

\* impl CheckSeverity for CertificateError
CertificateError_severity(err) ==
    IF err.kind = "CodecError" THEN CodecError_severity ELSE "Unsafe"

\* impl CheckSeverity for ClientError
ClientError_severity(err) ==
    IF err.kind \in {"UnsupportedVersion", "ConnectionError", "ResponseError"}
    THEN "Inconclusive"
    ELSE "Unsafe"

\* impl CheckSeverity for ScannerError
ScannerError_severity(err) ==
    IF err.type = "CertificateError" THEN CertificateError_severity(err)
    ELSE IF err.type = "ClientError" THEN ClientError_severity(err)
    ELSE "Unsafe"

\* impl<E: CheckSeverity> From<E> for Conclusion
Conclusion_from(err) == ScannerError_severity(err)

\* Result<(), ScannerError>: Ok, Err(err), or a panic
CheckOk == [status |-> "Ok", err |-> NoScannerError]
CheckErr(err) == [status |-> "Err", err |-> err]
CheckPanic == [status |-> "Panic", err |-> NoScannerError]

\* the Result of a check from what a proof's validate returned
Checked(v, err) ==
    IF v = "Ok" THEN CheckOk ELSE IF v = "Panic" THEN CheckPanic ELSE CheckErr(err)

-----------------------------------------------------------------------------
(* The checks of an investigation, with the error they return *)

\* a store with the entries of `over` and, for the other keys, those of `under`
Overlay(over, under) ==
    [k \in (DOMAIN over) \cup (DOMAIN under) |->
        IF k \in DOMAIN over THEN over[k] ELSE under[k]]

\* the tile the log serves on a tile request: the nodes of one of its
\* histories, or nothing when the request fails (fetch_balanced_keys: None)
FetchedTile(fail, answer, tree_size) ==
    IF fail = "none" /\ tree_size > 0 THEN LogNodes(answer, tree_size) ELSE EmptyStore

\* TileFetchStore::get for the lookups of one proof, which join_all polls
\* together: a key of the node cache is answered from the cache, any other
\* from the fetched tile
TileView(cache, tile) == Overlay(cache, tile)

\* TileFetchStore::get after a fetch: the recomputed nodes of the tile are put
\* into the node cache
CacheAfter(cache, missed, tile) == IF missed THEN Overlay(tile, cache) ELSE cache

\* CtClient::check_sct_inclusion_v1 with its error
check_sct_inclusion_v1_result(sth, leaf_hash, fail, proof) ==
    IF fail # "none"
    THEN CheckErr(ClientError(fail))
    ELSE Checked(AuditProof_validate(proof, sth, leaf_hash), ClientError("AuditProofError"))

\* TileFetcher::check_embdedded_sct_inclusion with its error, the lookups
\* answered from `tile_nodes`
check_embdedded_sct_inclusion_result(sct, sth, leaf_hash, tile_nodes) ==
    IF sct.leaf_index = -1
    THEN CheckErr(TilingError("LeafIndexMissing"))
    ELSE LET proof == get_audit_proof(tile_nodes, sth, sct.leaf_index)
         IN  IF ~proof.ok
             THEN CheckErr(TilingError("AuditProofGenerationError"))
             ELSE Checked(AuditProof_validate(proof, sth, leaf_hash),
                          ClientError("AuditProofError"))

\* the lookups of the audit proof miss the node cache: a tile is requested
AuditMisses(cache, sct, sth) ==
    /\ sct.leaf_index # -1
    /\ sth.tree_size > 0
    /\ get_audit_proof(cache, sth, sct.leaf_index).err = "KeyNotFound"

\* CtClient::check_consistency_v1 with its error
check_consistency_v1_result(first, second, fail, answer) ==
    IF first.tree_size = second.tree_size
    THEN CheckOk
    ELSE LET a == IF first.tree_size < second.tree_size THEN first ELSE second
             b == IF first.tree_size < second.tree_size THEN second ELSE first
         IN  IF fail # "none"
             THEN CheckErr(ClientError(fail))
             ELSE Checked(ConsistencyProof_validate(
                              ConsistencyPath(LogNodes(answer, b.tree_size), a, b).path, a, b),
                          ClientError("ConsistencyProofError"))

\* TileFetcher::check_sth_consistency with its error, the lookups answered
\* from `tile_nodes`
check_sth_consistency_result(old, new, tile_nodes) ==
    IF old.tree_size = new.tree_size
    THEN CheckOk
    ELSE LET proof == get_consistency_proof_async(tile_nodes, old, new)
         IN  IF ~proof.ok
             THEN CheckErr(TilingError("ConsistencyProofGenerationError"))
             ELSE Checked(ConsistencyProof_validate(proof.path, old, new),
                          ClientError("ConsistencyProofError"))

\* the lookups of the consistency proof miss the node cache: a tile is requested
ConsistencyMisses(cache, old, new) ==
    /\ old.tree_size # new.tree_size
    /\ get_consistency_proof_async(cache, old, new).err = "KeyNotFound"

-----------------------------------------------------------------------------
(* Scanner::investigate_lead (luct-scanner/src/lib.rs, log.rs) *)

\* the log of the lead under investigation
LeadLog == lead.sct.log_id

\* investigate_lead returns a Conclusion
Conclude(c) ==
    /\ conclusion' = c
    /\ lpc' = "done"

\* investigate_lead: Err(err) => LeadResult::Conclusion(err.into())
ConcludeErr(err) == Conclude(Conclusion_from(err))

\* check_embedded_sct_inclusion once latest_sth has returned `sth`: update_sth
\* if the SCT is newer than the STH, else the second latest_sth, which returns
\* the last STH of the store
AfterLatestSth(l, sth) ==
    /\ lpc' = IF l.sct.timestamp > sth.tree_size THEN "update_sth" ELSE "inclusion"
    /\ lsth' = sth

\* A variant of the cache lookup that never finds the SCT
CacheHitNever(cache, sct) == FALSE

\* scanner.sct_cache.get(&sct.hash()).is_some()
CacheHit(cache, sct) == sct \in cache

\* investigate_lead up to its first await
InvestigateLead(l) ==
    /\ lpc \in {"idle", "done"}
    /\ Cardinality(sct_cache) < MaxCached \/ l.sct \in sct_cache
    /\ lead' = l
    /\ lnew' = NoSth
    /\ trail' = NoTrail
    /\ IF l.sct.log_id \notin ScanLogs
       THEN /\ Conclude("Inconclusive")
            /\ lsth' = NoSth
       ELSE IF CacheHit(sct_cache, l.sct)
       THEN /\ Conclude("Safe")
            /\ lsth' = NoSth
       ELSE IF last(log_stores[l.sct.log_id]) = NoSth
       THEN /\ lpc' = "get_sth"
            /\ conclusion' = "none"
            /\ lsth' = NoSth
       ELSE /\ AfterLatestSth(l, last(log_stores[l.sct.log_id]))
            /\ conclusion' = "none"
    /\ UNCHANGED <<sct_cache, root_keys, node_cache, log_stores, tiles, overflow_checks,
                   leadOthers>>

\* get_sth of latest_sth completes on an empty store
LeadSthFetched(fail, sth) ==
    /\ lpc = "get_sth"
    /\ trail' = [trail EXCEPT !.requested = TRUE,
                              !.failed = @ \/ fail \in TransportFailures]
    /\ IF fail # "none"
       THEN /\ ConcludeErr(ClientError(fail))
            /\ UNCHANGED <<log_stores, lsth>>
       ELSE /\ log_stores' = [log_stores EXCEPT
                                  ![LeadLog] = StoreInsert(@, sth.tree_size, sth)]
            /\ AfterLatestSth(lead, sth)
            /\ UNCHANGED conclusion
    /\ UNCHANGED <<sct_cache, root_keys, node_cache, lead, lnew, tiles, overflow_checks,
                   leadOthers>>

\* get_sth of update_sth completes: the new STH goes to the consistency check
\* against the last STH of the store
LeadUpdateFetched(fail, sth) ==
    /\ lpc = "update_sth"
    /\ trail' = [trail EXCEPT !.requested = TRUE,
                              !.failed = @ \/ fail \in TransportFailures]
    /\ IF fail # "none"
       THEN /\ ConcludeErr(ClientError(fail))
            /\ UNCHANGED lnew
       ELSE /\ lnew' = sth
            /\ lpc' = "check_consistency"
            /\ UNCHANGED conclusion
    /\ UNCHANGED <<sct_cache, root_keys, node_cache, log_stores, lead, lsth, tiles,
                   overflow_checks, leadOthers>>

\* the consistency check of update_sth completes; on Ok the new STH is
\* inserted and the second latest_sth returns the last STH of the store
LeadConsistencyChecked(fail, answer) ==
    /\ lpc = "check_consistency"
    /\ LET old == last(log_stores[LeadLog])
           cache == node_cache[LeadLog]
           missed == tiles /\ ConsistencyMisses(cache, old, lnew)
           asked == IF tiles THEN missed ELSE old.tree_size # lnew.tree_size
           tile == FetchedTile(fail, answer, lnew.tree_size)
           outcome == IF tiles
                      THEN check_sth_consistency_result(old, lnew, TileView(cache, tile))
                      ELSE check_consistency_v1_result(old, lnew, fail, answer)
           store == StoreInsert(log_stores[LeadLog], lnew.tree_size, lnew)
       IN  /\ trail' = [trail EXCEPT !.requested = @ \/ asked,
                                     !.failed = @ \/ (asked /\ fail \in TransportFailures)]
           /\ node_cache' = [node_cache EXCEPT ![LeadLog] = CacheAfter(cache, missed, tile)]
           /\ IF outcome.status = "Panic"
              THEN /\ lpc' = "panicked"
                   /\ UNCHANGED <<conclusion, log_stores, lsth>>
              ELSE IF outcome.status = "Err"
              THEN /\ ConcludeErr(outcome.err)
                   /\ UNCHANGED <<log_stores, lsth>>
              ELSE /\ log_stores' = [log_stores EXCEPT ![LeadLog] = store]
                   /\ lsth' = last(store)
                   /\ lpc' = "inclusion"
                   /\ UNCHANGED conclusion
    /\ UNCHANGED <<sct_cache, root_keys, lead, lnew, tiles, overflow_checks, leadOthers>>

\* investigate_embedded_sct once validate_root has returned Safe: the SCT is
\* inserted into the cache under its hash
ConcludeSafe ==
    /\ sct_cache' = sct_cache \cup {lead.sct}
    /\ Conclude("Safe")

\* as_leaf_v1 and the inclusion check complete; on Ok validate_root runs up to
\* its await
LeadInclusionChecked(leaf_ok, fail, answer, proof) ==
    /\ lpc = "inclusion"
    /\ LET cache == node_cache[LeadLog]
           missed == leaf_ok /\ tiles /\ AuditMisses(cache, lead.sct, lsth)
           asked == leaf_ok /\ (IF tiles THEN missed ELSE TRUE)
           tile == FetchedTile(fail, answer, lsth.tree_size)
           outcome ==
               IF ~leaf_ok
               THEN CheckErr(CertificateError("CodecError"))
               ELSE IF tiles
               THEN check_embdedded_sct_inclusion_result(
                        lead.sct, lsth, LeafHash(lead.entry), TileView(cache, tile))
               ELSE check_sct_inclusion_v1_result(lsth, LeafHash(lead.entry), fail, proof)
       IN  /\ node_cache' = [node_cache EXCEPT ![LeadLog] = CacheAfter(cache, missed, tile)]
           /\ IF outcome.status = "Panic"
              THEN /\ lpc' = "panicked"
                   /\ trail' = [trail EXCEPT !.requested = @ \/ asked]
                   /\ UNCHANGED <<conclusion, sct_cache>>
              ELSE IF outcome.status = "Err"
              THEN /\ ConcludeErr(outcome.err)
                   /\ trail' = [trail EXCEPT
                                    !.requested = @ \/ asked,
                                    !.failed = @ \/ (asked /\ fail \in TransportFailures)]
                   /\ UNCHANGED sct_cache
              ELSE IF lead.root = -1
              THEN /\ Conclude("Inconclusive")
                   /\ trail' = [trail EXCEPT !.requested = @ \/ asked, !.inclusion = TRUE]
                   /\ UNCHANGED sct_cache
              ELSE IF lead.root \in root_keys[LeadLog]
              THEN /\ ConcludeSafe
                   /\ trail' = [trail EXCEPT !.requested = @ \/ asked, !.inclusion = TRUE,
                                             !.root = TRUE]
              ELSE /\ lpc' = "update_roots"
                   /\ trail' = [trail EXCEPT !.requested = @ \/ asked, !.inclusion = TRUE]
                   /\ UNCHANGED <<conclusion, sct_cache>>
    /\ UNCHANGED <<root_keys, log_stores, lead, lsth, lnew, tiles, overflow_checks,
                   leadOthers>>

\* get_roots_v1 of update_roots completes: the subject key ids of the roots
\* are inserted and the root is looked up again
LeadRootsFetched(fail, roots) ==
    /\ lpc = "update_roots"
    /\ IF fail # "none"
       THEN /\ ConcludeErr(ClientError(fail))
            /\ trail' = [trail EXCEPT !.requested = TRUE,
                                      !.failed = @ \/ fail \in TransportFailures]
            /\ UNCHANGED <<root_keys, sct_cache>>
       ELSE /\ root_keys' = [root_keys EXCEPT ![LeadLog] = @ \cup roots]
            /\ IF lead.root \in root_keys'[LeadLog]
               THEN /\ ConcludeSafe
                    /\ trail' = [trail EXCEPT !.requested = TRUE, !.root = TRUE]
               ELSE /\ Conclude("Unsafe")
                    /\ trail' = [trail EXCEPT !.requested = TRUE]
                    /\ UNCHANGED sct_cache
    /\ UNCHANGED <<node_cache, log_stores, lead, lsth, lnew, tiles, overflow_checks,
                   leadOthers>>

LeadInit ==
    /\ TreeInit
    /\ overflow_checks \in BOOLEAN
    /\ tiles \in BOOLEAN
    /\ SthIdle
    /\ DedupIdle
    /\ ScanIdle
    /\ LeadIdle
    /\ InsertIdle
    /\ FetchIdle
    /\ CallIdle

\* no proof: the tile fetcher makes its own
NoProof == [ok |-> FALSE, err |-> "none", index |-> 0, path |-> <<>>]

LeadNext ==
    \/ \E l \in Leads : InvestigateLead(l)
    \/ /\ lpc = "get_sth"
       /\ \E fail \in Failures \cup {"none"} : \E sth \in LogSths : LeadSthFetched(fail, sth)
    \/ /\ lpc = "update_sth"
       /\ \E fail \in Failures \cup {"none"} : \E sth \in LogSths :
              LeadUpdateFetched(fail, sth)
    \/ /\ lpc = "check_consistency"
       /\ \E fail \in Failures \cup {"none"} : \E answer \in Forks :
              LeadConsistencyChecked(fail, answer)
    \/ /\ lpc = "inclusion" /\ ~tiles
       /\ \E leaf_ok \in BOOLEAN : \E fail \in Failures \cup {"none"} :
              \E proof \in {p \in ProofAnswers(lsth) : p.ok} :
                  LeadInclusionChecked(leaf_ok, fail, "A", proof)
    \/ /\ lpc = "inclusion" /\ tiles
       /\ \E leaf_ok \in BOOLEAN : \E fail \in Failures \cup {"none"} : \E answer \in Forks :
              LeadInclusionChecked(leaf_ok, fail, answer, NoProof)
    \/ /\ lpc = "update_roots"
       /\ \E fail \in Failures \cup {"none"} : \E roots \in SUBSET RootKeyIds :
              LeadRootsFetched(fail, roots)

SpecLead == LeadInit /\ [][LeadNext]_vars

-----------------------------------------------------------------------------
(* Claims on the lead investigation *)

\* C11: over any sequence of investigate_lead calls, sct_cache changes only by
\* the insert of the investigated SCT at the step that ends an investigation
\* in Safe after its inclusion check and its root validation succeeded, and an
\* investigation of an SCT that is in the cache returns Safe at once, without
\* a request.
C11_CacheOnlyAfterSafe ==
    [][/\ sct_cache' # sct_cache =>
            /\ sct_cache' = sct_cache \cup {lead.sct}
            /\ lpc' = "done" /\ conclusion' = "Safe"
            /\ trail'.inclusion /\ trail'.root
       /\ (lpc \in {"idle", "done"} /\ lead'.sct \in sct_cache) =>
            /\ lpc' = "done" /\ conclusion' = "Safe"
            /\ trail' = NoTrail
            /\ log_stores' = log_stores /\ root_keys' = root_keys
               /\ node_cache' = node_cache]_vars

\* an investigation of a cached SCT has returned Safe without a request
C11_Witness ==
    /\ lpc = "done" /\ conclusion = "Safe"
    /\ lead.sct \in sct_cache
    /\ trail = NoTrail

\* C12: investigate_lead returns a Conclusion, and when a request of the
\* investigation failed in the transport (ConnectionError, ResponseError), on a
\* JSON log and on a tiling log alike, the Conclusion is Inconclusive.
C12_TransportFailureInconclusive ==
    /\ lpc = "done" => conclusion \in {"Safe", "Inconclusive", "Unsafe"}
    /\ (lpc = "done" /\ trail.failed) => conclusion = "Inconclusive"

\* C20: on both scanner paths the SCT's signature has been validated when the
\* inclusion check starts, so that an SCT reported as included or concluded
\* Safe has a validated signature.
C20_SignatureBeforeInclusion ==
    /\ \A i \in SctIds :
           (spc[i] = "inclusion" \/ report[i].inclusion_proof # -1)
               => report[i].signature_validation_time
    /\ lpc = "inclusion" => validate_sct_v1(lead)
    /\ (lpc = "done" /\ conclusion = "Safe") => validate_sct_v1(lead)

\* the report path validates the signature before its inclusion check
ReportSignatureBeforeInclusion ==
    \A i \in SctIds :
        (spc[i] = "inclusion" \/ report[i].inclusion_proof # -1)
            => report[i].signature_validation_time

-----------------------------------------------------------------------------
(* Report::evaluate_policy.  Times are whole hours.  An Option is a sequence *)
(* of length at most one: None is <<>>, Some(x) is <<x>>.                    *)

Some(x) == <<x>>

\* TimeDelta::days, TimeDelta::hours
TimeDelta_days(n) == n * 24
TimeDelta_hours(n) == n

\* struct SthReport (height and timestamp play no part in the policy)
SthReport(t) == [verification_time |-> t]

\* the times of the calls of evaluate_policy
PolicyNow == {48}
\* the verification times of the STHs in the reports: 25 hours and 1 hour before the call
SthTimes == {23, 47}
\* the validity periods of the certificates: 180 days, 180 days and an hour, 181 days
Validities == {4320, 4321, 4344}

\* struct SctReport (cached, log_name and error_description play no part in the policy)
\* as collect_embedded_sct_report builds them: the STH is reported once the
\* signature is validated, and the inclusion proof is reported against that STH
SctReports ==
    {r \in [signature_validation_time : {None, Some(47)},
            latest_sth : {None} \cup {Some(SthReport(t)) : t \in SthTimes},
            inclusion_proof : {None} \cup {Some(SthReport(t)) : t \in SthTimes}] :
        /\ r.latest_sth # None => r.signature_validation_time # None
        /\ r.inclusion_proof # None => r.inclusion_proof = r.latest_sth}

\* the sequences over S of length at most n
SeqUpTo(S, n) == UNION {[1..k -> S] : k \in 0..n}

\* struct Report (ca_name plays no part in the policy)
Reports ==
    [not_before : {0}, not_after : Validities, scts : SeqUpTo(SctReports, 3)]

\* evaluate_policy: let num_expected_scts
num_expected_scts(r) ==
    IF r.not_after - r.not_before <= TimeDelta_days(180) THEN 2 ELSE 3

\* A variant of num_scts that counts every SCT of the report
num_scts_all(r) == Len(r.scts)

\* evaluate_policy: let num_scts
num_scts(r) ==
    Cardinality({i \in DOMAIN r.scts : r.scts[i].signature_validation_time # None})

\* evaluate_policy: the first filter, SCT reports of logs with a recent STH
has_recent_sth(sct_report, time) ==
    /\ sct_report.latest_sth # None
    /\ sct_report.latest_sth[1].verification_time > time - TimeDelta_hours(24)

\* evaluate_policy: the inclusion proofs of the filtered SCT reports, partitioned
old_inclusion_proofs(r, time) ==
    {i \in DOMAIN r.scts :
        /\ has_recent_sth(r.scts[i], time)
        /\ r.scts[i].inclusion_proof # None
        /\ r.scts[i].inclusion_proof[1].verification_time < time - TimeDelta_hours(24)}

fresh_inclusion_proofs(r, time) ==
    {i \in DOMAIN r.scts :
        /\ has_recent_sth(r.scts[i], time)
        /\ r.scts[i].inclusion_proof # None
        /\ ~(r.scts[i].inclusion_proof[1].verification_time < time - TimeDelta_hours(24))}

\* Result<(), String> of evaluate_policy
PolicyOk == <<"Ok">>
InsufficientScts(expected, found) == <<"Err", "Insufficient number of SCTs", expected, found>>
InsufficientInclusionProofs == <<"Err", "Insufficient number of inclusion proofs">>

\* Report::evaluate_policy
evaluate_policy(r, time) ==
    IF num_scts(r) < num_expected_scts(r)
    THEN InsufficientScts(num_expected_scts(r), num_scts(r))
    ELSE IF old_inclusion_proofs(r, time) = {}
            /\ Cardinality(fresh_inclusion_proofs(r, time)) < 2
         THEN InsufficientInclusionProofs
         ELSE PolicyOk

\* the caller has a report and the time
PolicyInit ==
    /\ TreeInit
    /\ overflow_checks = TRUE
    /\ tiles = FALSE
    /\ SthIdle
    /\ DedupIdle
    /\ ScanIdle
    /\ LeadIdle
    /\ InsertIdle
    /\ FetchIdle
    /\ input \in [report : Reports, time : PolicyNow]
    /\ output = NotCalled
    /\ memory_store = <<>>
    /\ directory = <<>>
    /\ local_storage = <<>>

\* the caller calls report.evaluate_policy(time)
EvaluatePolicy ==
    /\ output = NotCalled
    /\ output' = evaluate_policy(input.report, input.time)
    /\ UNCHANGED <<input, storeVars, callOthers>>

PolicyNext == EvaluatePolicy

SpecPolicy == PolicyInit /\ [][PolicyNext]_vars

\* the SCT reports of the input with a validated signature
ValidatedScts ==
    {i \in DOMAIN input.report.scts :
        input.report.scts[i].signature_validation_time # None}

\* the validity period of the input's certificate, in hours
ValidityHours == input.report.not_after - input.report.not_before

\* the count of validated SCTs the policy requires of the input
RequiredScts == IF ValidityHours <= 180 * 24 THEN 2 ELSE 3

\* C13: evaluate_policy fails with the error about the number of SCTs exactly
\* when fewer SCT reports carry a signature_validation_time than required: 2
\* for a validity of at most 180 days (180 days included), 3 otherwise; an SCT
\* report without signature_validation_time is not counted.
C13_ValidatedSctCount ==
    output # NotCalled =>
        IF Cardinality(ValidatedScts) < RequiredScts
        THEN output = InsufficientScts(RequiredScts, Cardinality(ValidatedScts))
        ELSE output \in {PolicyOk, InsufficientInclusionProofs}

\* a certificate valid for 181 days with three SCTs, two of them validated, fails
C13_Witness ==
    /\ output # NotCalled
    /\ ValidityHours = 181 * 24
    /\ Len(input.report.scts) = 3
    /\ Cardinality(ValidatedScts) = 2
    /\ output = InsufficientScts(3, 2)

\* the inclusion proofs of the input against STHs verified within the 24 hours before the call
FreshProofs ==
    {i \in DOMAIN input.report.scts :
        /\ input.report.scts[i].inclusion_proof # None
        /\ input.report.scts[i].inclusion_proof[1].verification_time >= input.time - 24}

\* the inclusion proofs of the input against STHs verified more than 24 hours before the call
OldProofs ==
    {i \in DOMAIN input.report.scts :
        /\ input.report.scts[i].inclusion_proof # None
        /\ input.report.scts[i].inclusion_proof[1].verification_time < input.time - 24}

\* C14: given enough validated SCTs, evaluate_policy fails exactly when fewer
\* than 2 inclusion proofs are held against STHs verified within the 24 hours
\* before the call and none against an STH verified earlier; one inclusion
\* proof against an STH older than 24 hours is enough to pass.
C14_FreshOrOldInclusionProofs ==
    (output # NotCalled /\ Cardinality(ValidatedScts) >= RequiredScts) =>
        (output # PolicyOk <=> (Cardinality(FreshProofs) < 2 /\ OldProofs = {}))

-----------------------------------------------------------------------------
(* The OrderedStore implementations: MemoryStore, FilesystemStore and       *)
(* BrowserStore, with u64 keys.  A String is the sequence of its characters.*)

\* the keys and values the caller inserts
StoreKeys == {2, 10, 33}
StoreValues == {"a", "b"}
StoreImpls == {"MemoryStore", "FilesystemStore", "BrowserStore"}

DigitChars == <<"0", "1", "2", "3", "4", "5", "6", "7", "8", "9">>

RECURSIVE to_string(_)
\* u64::to_string
to_string(n) ==
    IF n < 10 THEN <<DigitChars[n + 1]>>
    ELSE to_string(n \div 10) \o <<DigitChars[(n % 10) + 1]>>

RECURSIVE ParseFrom(_, _)
\* str::parse::<u64>, the digits read so far having the value acc
ParseFrom(str, acc) ==
    IF str = <<>> THEN Some(acc)
    ELSE IF \E d \in 0..9 : DigitChars[d + 1] = Head(str)
         THEN ParseFrom(Tail(str),
                        10 * acc + (CHOOSE d \in 0..9 : DigitChars[d + 1] = Head(str)))
         ELSE None

\* str::parse::<u64>().ok()
parse(str) == IF str = <<>> THEN None ELSE ParseFrom(str, 0)

\* impl StringStoreKey for u64
serialize_key(key) == to_string(key)
deserialize_key(str) == parse(str)

\* StringStoreValue of a JSON string value
serialize_value(v) == <<"\"", v, "\"">>
deserialize_value(str) ==
    IF Len(str) = 3 /\ str[1] = "\"" /\ str[3] = "\"" THEN Some(str[2]) ELSE None

\* the largest element of a non-empty set of numbers
Largest(S) == CHOOSE x \in S : \A y \in S : y <= x

\* MemoryStore::insert: BTreeMap::insert replaces the value of an existing key
MemoryStore_insert(map, key, value) == (key :> value) @@ map

\* MemoryStore::last: the last entry of the BTreeMap
MemoryStore_last(map) ==
    IF DOMAIN map = {} THEN None
    ELSE Some(<<Largest(DOMAIN map), map[Largest(DOMAIN map)]>>)

\* StoreRequest::Insert: the file is written only when create_new succeeds
FilesystemStore_insert(dir, key, value) ==
    IF serialize_key(key) \in DOMAIN dir THEN dir
    ELSE (serialize_key(key) :> serialize_value(value)) @@ dir

\* StoreRequest::Last: the keys of the file names, sorted, the last one read back
FilesystemStore_last(dir) ==
    LET keys == {deserialize_key(name)[1] :
                    name \in {n \in DOMAIN dir : deserialize_key(n) # None}}
    IN  IF keys = {} THEN None
        ELSE LET key == Largest(keys)
                 data == dir[serialize_key(key)]
             IN  IF deserialize_value(data) = None THEN None
                 ELSE Some(<<key, deserialize_value(data)[1]>>)

\* BrowserStore.prefix and the item keys built from it
prefix == <<"s">>
get_key_string(key) == prefix \o <<"/">> \o serialize_key(key)
key_from_str(str) == deserialize_key(SubSeq(str, Len(prefix) + 2, Len(str)))
count_key == prefix \o <<"#", "c", "o", "u", "n", "t">>
last_key == prefix \o <<"#", "l", "a", "s", "t">>

\* Storage::get_item
get_item(storage, key) == IF key \in DOMAIN storage THEN Some(storage[key]) ELSE None

\* Storage::set_item
set_item(storage, key, val) == (key :> val) @@ storage

\* BrowserStore::get_count
get_count(storage) ==
    IF get_item(storage, count_key) = None THEN 0
    ELSE parse(get_item(storage, count_key)[1])[1]

\* BrowserStore::inc_count
inc_count(storage) == set_item(storage, count_key, to_string(get_count(storage) + 1))

\* BrowserStore::set_last
set_last(storage, key) == set_item(storage, last_key, key)

\* BrowserStore::insert panics when the key holds a different value
BrowserStore_insert_panics(storage, key, value) ==
    /\ get_item(storage, get_key_string(key)) # None
    /\ get_item(storage, get_key_string(key))[1] # serialize_value(value)

\* BrowserStore::insert, when it does not panic
BrowserStore_insert(storage, key, value) ==
    IF get_item(storage, get_key_string(key)) # None THEN storage
    ELSE set_last(inc_count(set_item(storage, get_key_string(key), serialize_value(value))),
                  get_key_string(key))

\* BrowserStore::last: the entry the last pointer names
BrowserStore_last(storage) ==
    IF get_item(storage, last_key) = None THEN None
    ELSE LET key == get_item(storage, last_key)[1]
         IN  IF get_item(storage, key) = None THEN None
             ELSE IF key_from_str(key) = None
                     \/ deserialize_value(get_item(storage, key)[1]) = None
                  THEN None
                  ELSE Some(<<key_from_str(key)[1],
                              deserialize_value(get_item(storage, key)[1])[1]>>)

\* a thread of the caller panicked
Panicked == <<"Panic">>

\* the caller has one empty store of one of the implementations
StoreInit ==
    /\ TreeInit
    /\ overflow_checks = TRUE
    /\ tiles = FALSE
    /\ SthIdle
    /\ DedupIdle
    /\ ScanIdle
    /\ LeadIdle
    /\ InsertIdle
    /\ FetchIdle
    /\ input \in [store : StoreImpls, inserted : {{}}]
    /\ output = NotCalled
    /\ memory_store = <<>>
    /\ directory = <<>>
    /\ local_storage = <<>>

\* the caller calls store.insert(key, value) on a MemoryStore
MemoryInsert(key, value) ==
    /\ input.store = "MemoryStore"
    /\ memory_store' = MemoryStore_insert(memory_store, key, value)
    /\ input' = [input EXCEPT !.inserted = @ \cup {key}]
    /\ output' = NotCalled
    /\ UNCHANGED <<directory, local_storage, callOthers>>

\* the caller calls store.insert(key, value) on a FilesystemStore
FilesystemInsert(key, value) ==
    /\ input.store = "FilesystemStore"
    /\ directory' = FilesystemStore_insert(directory, key, value)
    /\ input' = [input EXCEPT !.inserted = @ \cup {key}]
    /\ output' = NotCalled
    /\ UNCHANGED <<memory_store, local_storage, callOthers>>

\* the caller calls store.insert(key, value) on a BrowserStore
BrowserInsert(key, value) ==
    /\ input.store = "BrowserStore"
    /\ output # Panicked
    /\ IF BrowserStore_insert_panics(local_storage, key, value)
       THEN /\ output' = Panicked
            /\ UNCHANGED <<input, local_storage>>
       ELSE /\ local_storage' = BrowserStore_insert(local_storage, key, value)
            /\ input' = [input EXCEPT !.inserted = @ \cup {key}]
            /\ output' = NotCalled
    /\ UNCHANGED <<memory_store, directory, callOthers>>

\* the caller calls store.last()
StoreLast ==
    /\ output = NotCalled
    /\ output' = CASE input.store = "MemoryStore" -> <<"last", MemoryStore_last(memory_store)>>
                   [] input.store = "FilesystemStore" -> <<"last", FilesystemStore_last(directory)>>
                   [] input.store = "BrowserStore" -> <<"last", BrowserStore_last(local_storage)>>
    /\ UNCHANGED <<input, storeVars, callOthers>>

StoreNext ==
    \/ \E key \in StoreKeys, value \in StoreValues : MemoryInsert(key, value)
    \/ \E key \in StoreKeys, value \in StoreValues : FilesystemInsert(key, value)
    \/ \E key \in StoreKeys, value \in StoreValues : BrowserInsert(key, value)
    \/ StoreLast

SpecStore == StoreInit /\ [][StoreNext]_vars

\* C15: for each of the three implementations and after any sequence of
\* inserts, last() returns the entry of the largest key inserted, and None
\* exactly when nothing was inserted.
C15_LastIsLargestKey ==
    output[1] = "last" =>
        IF input.inserted = {} THEN output[2] = None
        ELSE /\ output[2] # None
             /\ output[2][1][1] = Largest(input.inserted)

-----------------------------------------------------------------------------
(* Signature::validate.  An ECDSA signature is modelled by the key pair that *)
(* made it and the data it signs; verification succeeds when both match.     *)

\* enum HashAlgorithm, enum SignatureAlgorithm
HashAlgorithms == {"None", "Md5", "Sha1", "Sha224", "Sha256", "Sha384", "Sha512"}
SignatureAlgorithms == {"Anonymous", "Rsa", "Dsa", "Ecdsa"}

\* the key pairs, and the key bytes that are no P-256 public key
KeyPairs == {"K1", "K2"}
MalformedKeyBytes == "malformed"

\* the signature bytes: no DER signature, or the signature of a key pair over some data
SignatureBytes ==
    [der : {FALSE}, signer : {"K1"}, data : {0}]
        \cup [der : {TRUE}, signer : KeyPairs, data : Values]

\* struct Signature<T>
Signatures ==
    [hash : HashAlgorithms, signature_algorithm : SignatureAlgorithms,
     signature : SignatureBytes]

\* Result<(), SignatureValidationError>
ValidateOk == <<"Ok", "">>
ValidateErr(error) == <<"Err", error>>

\* VerifyingKey::verify: ECDSA over P-256 with SHA-256
verify(key, data, signature) == signature.signer = key /\ signature.data = data

\* Signature::validate, the match on the signature algorithm
validate_signature_algorithm(sig, val, key) ==
    IF sig.signature_algorithm = "Ecdsa"
    THEN IF key = MalformedKeyBytes THEN ValidateErr("MalformedKey")
         ELSE IF ~sig.signature.der THEN ValidateErr("MalformedSignature")
         ELSE IF ~verify(key, val, sig.signature) THEN ValidateErr("InvalidSignature")
         ELSE ValidateOk
    ELSE ValidateErr("UnsupportedSignatureAlgorithm")

\* Signature::validate
Signature_validate(sig, val, key) ==
    IF sig.hash \in {"Sha224", "Sha256", "Sha384", "Sha512"}
    THEN validate_signature_algorithm(sig, val, key)
    ELSE ValidateErr("UnsupportedHashAlgorithm")

\* the caller has a signature, a value and a key
SignatureInit ==
    /\ TreeInit
    /\ overflow_checks = TRUE
    /\ tiles = FALSE
    /\ SthIdle
    /\ DedupIdle
    /\ ScanIdle
    /\ LeadIdle
    /\ InsertIdle
    /\ FetchIdle
    /\ input \in [sig : Signatures, val : Values, key : KeyPairs \cup {MalformedKeyBytes}]
    /\ output = NotCalled
    /\ memory_store = <<>>
    /\ directory = <<>>
    /\ local_storage = <<>>

\* the caller calls sig.validate(val, key)
Validate ==
    /\ output = NotCalled
    /\ output' = Signature_validate(input.sig, input.val, input.key)
    /\ UNCHANGED <<input, storeVars, callOthers>>

SignatureNext == Validate

SpecSignature == SignatureInit /\ [][SignatureNext]_vars

\* C16: validate runs the ECDSA verification only for {hash = Sha256,
\* signature = Ecdsa}; for every other pair it returns
\* UnsupportedHashAlgorithm or UnsupportedSignatureAlgorithm, never Ok(()).
C16_OnlySha256Ecdsa ==
    (/\ output # NotCalled
     /\ ~(input.sig.hash = "Sha256" /\ input.sig.signature_algorithm = "Ecdsa"))
        => output \in {ValidateErr("UnsupportedHashAlgorithm"),
                       ValidateErr("UnsupportedSignatureAlgorithm")}

-----------------------------------------------------------------------------
(* LogList::active_logs                                                      *)

\* Sha256::digest, collision-free: the digest is modelled by what is hashed
SHA256(bytes) == <<"sha256", bytes>>

\* enum State, enum LogType
States == {"Pending", "Qualified", "Usable", "Readonly", "Retired", "Rejected"}
LogTypes == {"Prod", "Test", "MonitoringOnly"}

\* the time of the call and the ends of the temporal intervals
ListNow == {5}
IntervalEnds == {4, 5, 6}

\* struct Interval
Interval(end) == [end_exclusive |-> end]

\* struct Logs: an entry of Operators.logs
JsonLogs ==
    [description : {"a"},
     log_id : {SHA256("k1"), SHA256("other")},
     key : {"k1"},
     state : {None} \cup {Some(st) : st \in States},
     temporal_interval : {None} \cup {Some(Interval(e)) : e \in IntervalEnds},
     log_type : {None} \cup {Some(ty) : ty \in LogTypes},
     url : {[tiled |-> FALSE]}]

\* an entry of Operators.tiled_logs
TiledLog ==
    [description |-> "t", log_id |-> SHA256("k2"), key |-> "k2",
     state |-> Some("Usable"), temporal_interval |-> Some(Interval(6)),
     log_type |-> Some("Prod"), url |-> [tiled |-> TRUE]]

\* struct Operators
Operators == [logs : {<<l>> : l \in JsonLogs}, tiled_logs : {<<>>, <<TiledLog>>}]

\* struct LogList with one operator
LogLists == [operators : {<<o>> : o \in Operators}]

\* CtLog::new: the log id is the digest of the key
CtLog_new(config) == [config |-> config, log_id |-> SHA256(config.key)]

\* CtLog::log_id
CtLog_log_id(log) == log.log_id

\* active_logs: the three filters
time_filter(interval, time) ==
    interval # None /\ interval[1].end_exclusive > time

state_filter(state) ==
    state # None /\ state[1] \in {"Qualified", "Usable", "Readonly"}

type_filter(log_type) ==
    log_type = None \/ log_type[1] = "Prod"

RECURSIVE Flatten(_)
\* flat_map over the operators: each operator's logs, then its tiled_logs
Flatten(operators) ==
    IF operators = <<>> THEN <<>>
    ELSE Head(operators).logs \o Head(operators).tiled_logs \o Flatten(Tail(operators))

\* LogList::logs: the CtLogConfig built of a Logs entry
CtLogConfigOf(entry) ==
    [description |-> entry.description, key |-> entry.key, tiled |-> entry.url.tiled]

RECURSIVE FilterMap(_)
\* LogList::logs: the filter_map; in its closure `log` is the CtLog just built,
\* so the comparison is between that CtLog's log_id() and its own log_id
FilterMap(entries) ==
    IF entries = <<>> THEN <<>>
    ELSE LET log == CtLog_new(CtLogConfigOf(Head(entries)))
         IN  (IF CtLog_log_id(log) = log.log_id THEN <<log>> ELSE <<>>)
                 \o FilterMap(Tail(entries))

\* LogList::active_logs, through LogList::logs
active_logs(list, time) ==
    LET passes(entry) ==
            /\ time_filter(entry.temporal_interval, time)
            /\ state_filter(entry.state)
            /\ type_filter(entry.log_type)
    IN  FilterMap(SelectSeq(Flatten(list.operators), passes))

\* the caller has a log list and the time
LogListInit ==
    /\ TreeInit
    /\ overflow_checks = TRUE
    /\ tiles = FALSE
    /\ SthIdle
    /\ DedupIdle
    /\ ScanIdle
    /\ LeadIdle
    /\ InsertIdle
    /\ FetchIdle
    /\ input \in [list : LogLists, time : ListNow]
    /\ output = NotCalled
    /\ memory_store = <<>>
    /\ directory = <<>>
    /\ local_storage = <<>>

\* the caller calls list.active_logs(time)
ActiveLogs ==
    /\ output = NotCalled
    /\ output' = <<"logs", active_logs(input.list, input.time)>>
    /\ UNCHANGED <<input, storeVars, callOthers>>

LogListNext == ActiveLogs

SpecLogList == LogListInit /\ [][LogListNext]_vars

\* the entries of the input log list
ListedLogs == {Flatten(input.list.operators)[i] : i \in DOMAIN Flatten(input.list.operators)}

\* the call returned a CtLog built of the entry
IsReturned(entry) ==
    \E i \in DOMAIN output[2] : output[2][i].config = CtLogConfigOf(entry)

\* C17: active_logs(now) returns a log iff its state is Qualified, Usable or
\* Readonly, its log_type is Prod or absent, its temporal_interval is absent
\* or ends after now, and SHA256(key) equals its log_id.
C17_ActiveLogs ==
    output # NotCalled =>
        \A entry \in ListedLogs :
            IsReturned(entry) <=>
                /\ entry.state \in {Some("Qualified"), Some("Usable"), Some("Readonly")}
                /\ entry.log_type \in {None, Some("Prod")}
                /\ \/ entry.temporal_interval = None
                   \/ entry.temporal_interval[1].end_exclusive > input.time
                /\ SHA256(entry.key) = entry.log_id

-----------------------------------------------------------------------------
(* The codec of CtExtensions.  Bytes are sequences of numbers 0..255; a      *)
(* reader is the sequence of the bytes not yet read.                         *)

\* enum CtExtension
LeafIndexExt(index) == [tag |-> "LeafIndex", discriminant |-> 0, index |-> index, bytes |-> <<>>]
UnknownExt(discriminant, bytes) ==
    [tag |-> "Unknown", discriminant |-> discriminant, index |-> 0, bytes |-> bytes]

\* Result<_, CodecError> of an encode or decode, and the reader left behind
CodecOk(value) == [status |-> "Ok", value |-> value]
CodecErr(error) == [status |-> "Err", value |-> <<error>>]
Read(status, value, rest) == [status |-> status, value |-> value, rest |-> rest]

\* impl Encode for u16: two bytes, big endian
u16_encode(n) == <<(n \div 256) % 256, n % 256>>

\* impl Decode for u16
u16_decode(reader) ==
    IF Len(reader) < 2 THEN Read("UnexpectedEof", 0, <<>>)
    ELSE Read("Ok", 256 * reader[1] + reader[2], SubSeq(reader, 3, Len(reader)))

\* impl Encode for LeafIndex: the low five bytes of the u64, big endian
LeafIndex_encode(index) ==
    <<((index \div 16777216) \div 256) % 256, (index \div 16777216) % 256,
      (index \div 65536) % 256, (index \div 256) % 256, index % 256>>

\* impl Decode for LeafIndex
LeafIndex_decode(reader) ==
    IF Len(reader) < 5 THEN Read("UnexpectedEof", 0, <<>>)
    ELSE Read("Ok",
              (((reader[1] * 256 + reader[2]) * 256 + reader[3]) * 256 + reader[4]) * 256
                  + reader[5],
              SubSeq(reader, 6, Len(reader)))

\* impl Encode for CodecVec<u16>
CodecVec_encode(bytes) == u16_encode(Len(bytes)) \o bytes

\* impl Decode for CodecVec<u16>
CodecVec_decode(reader) ==
    LET len == u16_decode(reader)
    IN  IF len.status # "Ok" THEN Read(len.status, <<>>, <<>>)
        ELSE IF Len(len.rest) < len.value THEN Read("UnexpectedEof", <<>>, <<>>)
        ELSE Read("Ok", SubSeq(len.rest, 1, len.value),
                  SubSeq(len.rest, len.value + 1, Len(len.rest)))

\* impl Encode for CtExtension
CtExtension_encode(ext) ==
    IF ext.tag = "LeafIndex" THEN <<0, 0, 5>> \o LeafIndex_encode(ext.index)
    ELSE <<ext.discriminant>> \o CodecVec_encode(ext.bytes)

\* impl Decode for CtExtension
CtExtension_decode(reader) ==
    IF reader = <<>> THEN Read("UnexpectedEof", <<>>, <<>>)
    ELSE IF Head(reader) = 0
    THEN LET sz == u16_decode(Tail(reader))
         IN  IF sz.status # "Ok" THEN Read(sz.status, <<>>, <<>>)
             ELSE IF sz.value # 5 THEN Read("UnexpectedSize", <<>>, <<>>)
             ELSE LET leaf_index == LeafIndex_decode(sz.rest)
                  IN  IF leaf_index.status # "Ok" THEN Read(leaf_index.status, <<>>, <<>>)
                      ELSE Read("Ok", LeafIndexExt(leaf_index.value), leaf_index.rest)
    ELSE LET bytes == CodecVec_decode(Tail(reader))
         IN  IF bytes.status # "Ok" THEN Read(bytes.status, <<>>, <<>>)
             ELSE Read("Ok", UnknownExt(Head(reader), bytes.value), bytes.rest)

RECURSIVE encode_to_io_slice(_)
\* encode_to_io_slice: every item is written behind the two bytes of its length
encode_to_io_slice(items) ==
    IF items = <<>> THEN <<>>
    ELSE u16_encode(Len(CtExtension_encode(Head(items))))
             \o CtExtension_encode(Head(items))
             \o encode_to_io_slice(Tail(items))

\* impl Encode for SizedAppendVec<CtExtension>, i.e. for CtExtensions
CtExtensions_encode(items) ==
    IF Len(encode_to_io_slice(items)) > 65535 THEN CodecErr("UnexpectedSize")
    ELSE CodecOk(u16_encode(Len(encode_to_io_slice(items))) \o encode_to_io_slice(items))

RECURSIVE AppendVec_decode(_)
\* impl Decode for AppendVec<CtExtension>: items are decoded until the reader ends
AppendVec_decode(reader) ==
    LET item == CtExtension_decode(reader)
    IN  IF item.status = "UnexpectedEof" THEN CodecOk(<<>>)
        ELSE IF item.status # "Ok" THEN CodecErr(item.status)
        ELSE LET more == AppendVec_decode(item.rest)
             IN  IF more.status # "Ok" THEN more
                 ELSE CodecOk(<<item.value>> \o more.value)

\* Read::take
take(reader, len) == SubSeq(reader, 1, IF len < Len(reader) THEN len ELSE Len(reader))

\* impl Decode for SizedAppendVec<CtExtension>, i.e. for CtExtensions
CtExtensions_decode(reader) ==
    LET len == u16_decode(reader)
    IN  IF len.status = "UnexpectedEof" THEN CodecOk(<<>>)
        ELSE AppendVec_decode(take(len.rest, len.value))

\* the extensions of the lists: leaf indices and extensions of unknown tags
Extensions ==
    {LeafIndexExt(0), LeafIndexExt(257),
     UnknownExt(7, <<>>), UnknownExt(7, <<9>>), UnknownExt(200, <<1, 2>>)}

\* the extension lists
ExtensionLists == SeqUpTo(Extensions, 2)

RECURSIVE Concat(_)
\* the concatenation of the byte strings of a sequence
Concat(seqs) == IF seqs = <<>> THEN <<>> ELSE Head(seqs) \o Concat(Tail(seqs))

\* the wire bytes of RFC 6962 CtExtensions: the length of the body, then the
\* extensions one after the other, each as tag, length and data
WireBytes ==
    {u16_encode(Len(Concat([i \in DOMAIN x |-> CtExtension_encode(x[i])])))
         \o Concat([i \in DOMAIN x |-> CtExtension_encode(x[i])]) : x \in ExtensionLists}

\* the caller has an extension list to encode or bytes to decode
CodecInit ==
    /\ TreeInit
    /\ overflow_checks = TRUE
    /\ tiles = FALSE
    /\ SthIdle
    /\ DedupIdle
    /\ ScanIdle
    /\ LeadIdle
    /\ InsertIdle
    /\ FetchIdle
    /\ input \in [from : {"value"}, data : ExtensionLists]
                    \cup [from : {"bytes"}, data : WireBytes]
    /\ output = NotCalled
    /\ memory_store = <<>>
    /\ directory = <<>>
    /\ local_storage = <<>>

\* the caller encodes the extension list it has, or the one it decoded
Encode ==
    /\ \/ /\ output = NotCalled /\ input.from = "value"
          /\ output' = <<"encode", CtExtensions_encode(input.data)>>
       \/ /\ output[1] = "decode" /\ output[2].status = "Ok"
          /\ output' = <<"decode-encode", CtExtensions_encode(output[2].value)>>
    /\ UNCHANGED <<input, storeVars, callOthers>>

\* the caller decodes the bytes it has, or the ones it encoded
Decode ==
    /\ \/ /\ output = NotCalled /\ input.from = "bytes"
          /\ output' = <<"decode", CtExtensions_decode(input.data)>>
       \/ /\ output[1] = "encode" /\ output[2].status = "Ok"
          /\ output' = <<"encode-decode", CtExtensions_decode(output[2].value)>>
    /\ UNCHANGED <<input, storeVars, callOthers>>

CodecNext == Encode \/ Decode

SpecCodec == CodecInit /\ [][CodecNext]_vars

\* C18: CtExtensions round-trips through the codec: for every extension list
\* (the empty one included, which encodes to 00 00) decode(encode(x)) = x, and
\* for its wire bytes encode(decode(bytes)) = bytes.
C18_ExtensionsRoundTrip ==
    /\ (output[1] = "encode" /\ input.data = <<>>) => output[2] = CodecOk(<<0, 0>>)
    /\ output[1] \in {"encode", "decode"} => output[2].status = "Ok"
    /\ output[1] \in {"encode-decode", "decode-encode"} =>
           (output[2].status = "Ok" /\ output[2].value = input.data)

-----------------------------------------------------------------------------
(* NodeKey::split and NodeKey::merge, called on a key by a caller            *)

\* the starts and ends of the keys
KeyBounds == 0..14

\* the caller has a NodeKey {a, b} with a < b
NodeKeyInit ==
    /\ TreeInit
    /\ overflow_checks = TRUE
    /\ tiles = FALSE
    /\ SthIdle
    /\ DedupIdle
    /\ ScanIdle
    /\ LeadIdle
    /\ InsertIdle
    /\ FetchIdle
    /\ input \in {key \in [start : KeyBounds, end : KeyBounds] : key.start < key.end}
    /\ output = NotCalled
    /\ memory_store = <<>>
    /\ directory = <<>>
    /\ local_storage = <<>>

\* the caller calls key.split()
Split ==
    /\ output = NotCalled
    /\ output' = <<"split", split(input)>>
    /\ UNCHANGED <<input, storeVars, callOthers>>

\* the caller calls left.merge(&right) on the two keys split returned
Merge ==
    /\ output[1] = "split"
    /\ output' = <<"merge", merge(output[2][1], output[2][2])>>
    /\ UNCHANGED <<input, storeVars, callOthers>>

NodeKeyNext == Split \/ Merge

SpecNodeKey == NodeKeyInit /\ [][NodeKeyNext]_vars

\* C19: for every NodeKey {a, b} with a < b, size 1 included, split returns
\* (L, R) with L.start = a, L.end = R.start, R.end = b and L balanced, and
\* merge(L, R) is {a, b}.
C19_SplitMerge ==
    /\ output[1] = "split" =>
           /\ output[2][1].start = input.start
           /\ output[2][1].end = output[2][2].start
           /\ output[2][2].end = input.end
           /\ is_balanced(output[2][1])
    /\ output[1] = "merge" => output[2] = input

-----------------------------------------------------------------------------
(* Further claims on the lead investigation *)

\* check_embedded_sct_inclusion runs update_sth exactly when the STH that
\* latest_sth returned is older than the SCT
UpdateSthWhenStale ==
    [][(lpc' = "update_sth" /\ lpc # "update_sth")
           <=> (/\ lpc \in {"idle", "done", "get_sth"}
                /\ lpc' \notin {"idle", "done", "get_sth"}
                /\ lead'.sct.timestamp > lsth'.tree_size)]_vars

\* C21: check_embedded_sct_inclusion runs update_sth first when the stored
\* latest STH is older than the SCT, and the inclusion check is issued only
\* against an STH whose timestamp is at least the SCT's timestamp.
C21_SthCoversSctTimestamp ==
    lpc = "inclusion" => lsth.tree_size >= lead.sct.timestamp


-----------------------------------------------------------------------------
(* Claims on dropped futures of the deduplication client *)

\* the caller whose request future serves the entry a caller is attached to
InitiatorOf(c) == requests[dkey[c]][1]

\* a caller waits on an entry whose initiator was dropped during its fetch
WaitsOnDropped(c) ==
    /\ dpc[c] = "waiting"
    /\ chan[c] = NoResponse
    /\ dkey[c] \in DOMAIN requests
    /\ dpc[InitiatorOf(c)] = "dropped"
    /\ dkey[InitiatorOf(c)] = dkey[c]

\* C22: when a waiter was dropped before the response is delivered, the
\* broadcast of the initiator does not fail: the initiator returns, the entry
\* of the key is removed and every other waiter on the entry is sent the
\* response.
C22_DroppedWaiterDiscarded ==
    [][\A c \in Callers :
           (/\ dpc[c] = "draining"
            /\ dpc'[c] \notin {"draining", "dropped"}
            /\ ~Poisoned
            /\ \E i \in 1..Len(requests[dkey[c]]) : requests[dkey[c]][i] \in Dropped)
           => /\ dpc'[c] = "returned"
              /\ dkey[c] \notin DOMAIN requests'
              /\ \A i \in 2..Len(requests[dkey[c]]) :
                     requests[dkey[c]][i] \notin Dropped
                         => chan'[requests[dkey[c]][i]] = response[c]]_vars

\* The part of C22 that the code keeps: the broadcast removes the entry of
\* the key also when a waiter was dropped.
DroppedWaiterEntryRemoved ==
    [][\A c \in Callers :
           (/\ dpc[c] = "draining"
            /\ dpc'[c] \notin {"draining", "dropped"}
            /\ ~Poisoned)
           => dkey[c] \notin DOMAIN requests']_vars

\* C29: a waiter attached to an entry whose initiator was dropped during the
\* fetch eventually receives a response.
C29_WaitersOfDroppedInitiatorReceive ==
    \A c \in Callers : WaitsOnDropped(c) ~> (dpc[c] = "returned")

\* C29, second half: the entry of a dropped initiator is eventually removed.
DroppedInitiatorEntryRemoved ==
    \A key \in Keys :
        (key \in DOMAIN requests /\ dpc[requests[key][1]] = "dropped"
             /\ dkey[requests[key][1]] = key)
            ~> (key \notin DOMAIN requests)

\* Nothing serves the entry of a dropped initiator: it stays, and whoever
\* waits on it waits on.
DroppedInitiatorEntryStays ==
    [][\A c \in Callers : WaitsOnDropped(c) => WaitsOnDropped(c)' \/ dpc'[c] = "dropped"]_vars


-----------------------------------------------------------------------------
(* Tree::insert_entry called by two threads (luct-core/src/tree.rs) *)

\* the threads that call insert_entry on one tree
Inserters == {1, 2}

\* the number of leaves of the tree before the two calls
BaseSizes == 0..3

\* the tree after n calls of insert_entry, one after the other
RECURSIVE TreeOf(_)
TreeOf(n) ==
    IF n = 0
    THEN [nodes |-> EmptyStore, leafs |-> <<>>]
    ELSE LET r == insert_entry(TreeOf(n - 1).nodes, TreeOf(n - 1).leafs, 1)
         IN  [nodes |-> r.nodes, leafs |-> r.leafs]

\* Store::insert as insert_entry uses it: under the write lock, replace the
\* value of the key and return the one that was there
Store_insert(store, key, value) ==
    [store |-> StoreInsert(store, key, value), old |-> StoreGet(store, key)]

\* self.leafs.insert(idx, entry) on the leaf values kept by index
Leafs_insert(values, idx, entry) ==
    IF idx < Len(values)
    THEN [store |-> [values EXCEPT ![idx + 1] = entry], old |-> Some(values[idx + 1])]
    ELSE [store |-> Append(values, entry), old |-> None]

\* A check that lets every insert pass
double_insert_never(old_hash, old_leaf) == FALSE

\* if old_hash.is_some() || old_leaf.is_some(): the call panics
double_insert(old_hash, old_leaf) == old_hash # None \/ old_leaf # None

\* a thread outside insert_entry
NoInsert == [at |-> "idle", entry |-> 1, idx |-> 0, old_hash |-> None, diff |-> 2]

InsertInit ==
    /\ \E n \in BaseSizes : nodes = TreeOf(n).nodes /\ leafs = TreeOf(n).leafs
    /\ heads = {}
    /\ ret = Ret("new", "Ok", FALSE)
    /\ overflow_checks = TRUE
    /\ tiles = FALSE
    /\ SthIdle
    /\ DedupIdle
    /\ ScanIdle
    /\ LeadIdle
    /\ inserts = [t \in Inserters |-> NoInsert]
    /\ FetchIdle
    /\ CallIdle

\* let idx = self.leafs.len() as u64
InsertBegin(t, v) ==
    /\ inserts[t].at = "idle"
    /\ inserts' = [inserts EXCEPT ![t] = [NoInsert EXCEPT !.at = "insert_node",
                                                        !.entry = v,
                                                        !.idx = Len(leafs)]]
    /\ UNCHANGED <<nodes, leafs, insertOthers>>

\* let old_hash = self.nodes.insert(entry_key, entry.hash())
InsertNode(t) ==
    /\ inserts[t].at = "insert_node"
    /\ LET r == Store_insert(nodes, leaf(inserts[t].idx), LeafHash(inserts[t].entry))
       IN  /\ nodes' = r.store
           /\ inserts' = [inserts EXCEPT ![t].at = "insert_leaf", ![t].old_hash = r.old]
    /\ UNCHANGED <<leafs, insertOthers>>

\* let old_leaf = self.leafs.insert(idx, entry), and the panic when either
\* insert replaced a value
InsertLeaf(t) ==
    /\ inserts[t].at = "insert_leaf"
    /\ LET r == Leafs_insert(leafs, inserts[t].idx, inserts[t].entry)
       IN  /\ leafs' = r.store
           /\ inserts' = [inserts EXCEPT ![t].at =
                             IF double_insert(inserts[t].old_hash, r.old)
                             THEN "panicked"
                             ELSE "loop"]
    /\ UNCHANGED <<nodes, insertOthers>>

\* one turn of the while loop, or its exit and the return
InsertMerge(t) ==
    /\ inserts[t].at = "loop"
    /\ LET end == inserts[t].idx + 1
           diff == inserts[t].diff
           key == NodeKey(end - diff, end)
           l == StoreGet(nodes, split(key)[1])
           r == StoreGet(nodes, split(key)[2])
       IN  IF end % diff # 0
           THEN /\ inserts' = [inserts EXCEPT ![t].at = "returned"]
                /\ UNCHANGED nodes
           ELSE IF l = None \/ r = None
           THEN /\ inserts' = [inserts EXCEPT ![t].at = "panicked"]
                /\ UNCHANGED nodes
           ELSE /\ nodes' = StoreInsert(nodes, key, NodeHash(l, r))
                /\ inserts' = [inserts EXCEPT ![t].diff = 2 * diff]
    /\ UNCHANGED <<leafs, insertOthers>>

InsertNext ==
    \/ \E t \in Inserters : \E v \in Values : InsertBegin(t, v)
    \/ \E t \in Inserters : InsertNode(t)
    \/ \E t \in Inserters : InsertLeaf(t)
    \/ \E t \in Inserters : InsertMerge(t)

SpecInsert == InsertInit /\ [][InsertNext]_vars

\* the thread is past the panic check of its call and did not panic
PastCheck(t) == inserts[t].at \in {"loop", "returned"}

-----------------------------------------------------------------------------
(* TileId::from_node_key (luct-core/src/tiling/tile.rs), called by a caller *)

\* struct TileId
TileId(level, index, partial, n) ==
    [level |-> level, index |-> index, partial |-> partial, tree_size |-> n]

\* what from_node_key did: returned Some(id), or panicked
NoTileId == TileId(0, 0, None, 0)
TileSome(id) == [status |-> "Some", id |-> id]
TilePanic == [status |-> "Panic", id |-> NoTileId]

\* u64::ilog2 (of a number >= 1)
RECURSIVE ilog2(_)
ilog2(n) == IF n <= 1 THEN 0 ELSE 1 + ilog2(n \div 2)

\* TileId::from_node_key: the unwrap of NonZeroU8::new panics on a partial
\* size of 0 (both try_into stay in range for the sizes of a u64)
from_node_key(key, n) ==
    LET level == ilog2(next_power_of_two(size(key))) \div 8
        steps == 2 ^ (8 * level)
        tile_width == 256 * steps
        index == key.start \div tile_width
        tile_end == (index + 1) * tile_width
        partial == (n % tile_width) \div steps
    IN  IF tile_end < n
        THEN TileSome(TileId(level, index, None, n))
        ELSE IF partial > 255 \/ partial = 0 THEN TilePanic
        ELSE TileSome(TileId(level, index, Some(partial), n))

\* the key is a node of the RFC 6962 tree below root: root itself, or a node
\* below the half of root that holds it
RECURSIVE IsNodeBelow(_, _)
IsNodeBelow(key, root) ==
    IF key = root THEN TRUE
    ELSE IF size(root) <= 1 THEN FALSE
    ELSE IF key.end <= split(root)[1].end THEN IsNodeBelow(key, split(root)[1])
    ELSE IF key.start >= split(root)[2].start THEN IsNodeBelow(key, split(root)[2])
    ELSE FALSE

\* the tree sizes and the starts and ends of the node keys of the calls
TileTreeSizes == {1, 3, 255, 256, 257, 512, 65536, 65700, 70000}
TileKeyBounds ==
    {0, 1, 2, 3, 4, 5, 128, 192, 254, 255, 256, 257, 270, 271, 384, 512, 32768, 65536,
     65664, 65700, 69632, 69950, 69951, 69952, 69998, 69999, 70000}

\* a tree size and a node key of the tree of that size
TileCalls ==
    {c \in [key : [start : TileKeyBounds, end : TileKeyBounds], n : TileTreeSizes] :
         /\ c.key.start < c.key.end
         /\ c.key.end <= c.n
         /\ IsNodeBelow(c.key, full_range(c.n))}

TileIdInit ==
    /\ TreeInit
    /\ overflow_checks = TRUE
    /\ tiles = FALSE
    /\ SthIdle
    /\ DedupIdle
    /\ ScanIdle
    /\ LeadIdle
    /\ InsertIdle
    /\ FetchIdle
    /\ input \in TileCalls
    /\ output = NotCalled
    /\ memory_store = <<>>
    /\ directory = <<>>
    /\ local_storage = <<>>

\* the caller calls TileId::from_node_key(&key, tree_size)
FromNodeKey ==
    /\ output = NotCalled
    /\ output' = <<"from_node_key", from_node_key(input.key, input.n)>>
    /\ UNCHANGED <<input, storeVars, callOthers>>

TileIdNext == FromNodeKey

SpecTileId == TileIdInit /\ [][TileIdNext]_vars

\* the level, the width of the tiles of that level and the index of the tile
\* of a node key
LevelOf(key) == ilog2(next_power_of_two(size(key))) \div 8
WidthOf(key) == 256 * (256 ^ LevelOf(key))
IndexOf(key) == key.start \div WidthOf(key)

\* the partial size of the tile of a node key in a tree of size n
PartialOf(key, n) ==
    IF (IndexOf(key) + 1) * WidthOf(key) >= n
    THEN Some((n % WidthOf(key)) \div (2 ^ (8 * LevelOf(key))))
    ELSE None

\* C24: for every node key of a tree of size tree_size, from_node_key returns
\* the TileId of level L = log2(next_pow2(size)) / 8 and index
\* start / (256 * 256^L), partial with (tree_size mod tile_width) >> (8 * L)
\* exactly when (index + 1) * tile_width >= tree_size and full otherwise.
C24_TileIdOfNodeKey ==
    output # NotCalled =>
        /\ output[2].status = "Some"
        /\ output[2].id = TileId(LevelOf(input.key), IndexOf(input.key),
                                 PartialOf(input.key, input.n), input.n)

\* Whenever from_node_key returns, it returns the TileId of C24.
TileIdWhenReturned ==
    (output # NotCalled /\ output[2].status = "Some") =>
        output[2].id = TileId(LevelOf(input.key), IndexOf(input.key),
                              PartialOf(input.key, input.n), input.n)

\* The examples of C24 in a tree of size 70000.
TileIdExamples ==
    (output # NotCalled /\ input.n = 70000) =>
        /\ input.key = NodeKey(0, 256) => output[2] = TileSome(TileId(1, 0, None, 70000))
        /\ input.key = NodeKey(65536, 70000)
               => output[2] = TileSome(TileId(1, 1, Some(17), 70000))
        /\ input.key = NodeKey(0, 70000) => output[2] = TileSome(TileId(2, 0, Some(1), 70000))

\* from_node_key was called on each of the three examples
TileIdExamplesCalled ==
    /\ output # NotCalled
    /\ input.n = 70000
    /\ input.key \in {NodeKey(0, 256), NodeKey(65536, 70000), NodeKey(0, 70000)}


-----------------------------------------------------------------------------
(* TileId::with_data and Tile::recompute_node_keys                           *)
(* (luct-core/src/tiling/tile.rs), called by a caller.  The data of a tile   *)
(* is kept by its length in bytes; its 32-byte chunks are named by their     *)
(* position.                                                                  *)

\* data : Arc<Vec<u8>> of len bytes
Bytes(len) == [len |-> len]

\* self.data[32 * idx..32 * (idx + 1)]
Chunk(data, idx) == <<"chunk", idx>>

\* struct Tile
Tile(id, data) == [id |-> id, data |-> data]

\* A variant of with_data that accepts every multiple of 32 bytes
with_data_any_count(id, data) ==
    IF data.len % 32 # 0 THEN None ELSE Some(Tile(id, data))

\* TileId::with_data
with_data(id, data) ==
    LET expected_len == IF id.partial # None THEN id.partial[1] ELSE 256
    IN  IF data.len % 32 # 0 THEN None
        ELSE IF data.len # expected_len * 32 THEN None
        ELSE Some(Tile(id, data))

\* TileId::is_partial, TileId::into_unpartial
is_partial(id) == id.partial # None
into_unpartial(id) == [id EXCEPT !.partial = None]

\* an entry of the Vec<(NodeKey, HashOutput)>
Entry(key, hash) == [key |-> key, hash |-> hash]

\* "Add the base nodes to the output"
BaseNodes(tile) ==
    LET steps == 2 ^ (8 * tile.id.level)
        tile_width == 256 * steps
        tile_start == tile.id.index * tile_width
    IN  [idx \in 1..(tile.data.len \div 32) |->
            Entry(NodeKey(tile_start + (idx - 1) * steps, tile_start + idx * steps),
                  Chunk(tile.data, idx - 1))]

\* for idx in (start_idx..nodes.len()).step_by(2): push the merge of
\* nodes[idx] and nodes[idx + 1] and add 2 to start_idx.  The unwrap of merge
\* panics on two keys that are not adjacent; on an odd number of nodes the
\* last turn pairs the last node with nothing or with a node just pushed, and
\* panics as well.
PairLoop(list, idx, stop, start_idx) ==
    LET turns == (stop - idx) \div 2
    IN  IF idx >= stop
        THEN [ok |-> TRUE, nodes |-> list, start_idx |-> start_idx]
        ELSE IF \/ (stop - idx) % 2 = 1
                \/ \E j \in 1..turns : list[idx + 2 * j - 1].key.end # list[idx + 2 * j].key.start
        THEN [ok |-> FALSE, nodes |-> list, start_idx |-> start_idx]
        ELSE [ok |-> TRUE,
              nodes |-> list \o [j \in 1..turns |->
                                    Entry(merge(list[idx + 2 * j - 1].key, list[idx + 2 * j].key),
                                          NodeHash(list[idx + 2 * j - 1].hash,
                                                   list[idx + 2 * j].hash))],
              start_idx |-> start_idx + 2 * turns]

\* A variant of the while loop that drops the odd node it popped
RECURSIVE WhileLoopDropEnd(_, _)
WhileLoopDropEnd(list, start_idx) ==
    IF ~(start_idx < Len(list) - 1)
    THEN [ok |-> TRUE, nodes |-> list]
    ELSE LET odd == Len(list) % 2 = 1
             popped == IF odd THEN SubSeq(list, 1, Len(list) - 1) ELSE list
             r == PairLoop(popped, start_idx, Len(popped), start_idx)
         IN  IF ~r.ok THEN [ok |-> FALSE, nodes |-> r.nodes]
             ELSE WhileLoopDropEnd(r.nodes, r.start_idx)

\* while start_idx < nodes.len() - 1: pop the last node when the length is
\* odd, pair the nodes from start_idx on, push the popped node back
RECURSIVE WhileLoop(_, _)
WhileLoop(list, start_idx) ==
    IF ~(start_idx < Len(list) - 1)
    THEN [ok |-> TRUE, nodes |-> list]
    ELSE LET odd == Len(list) % 2 = 1
             popped == IF odd THEN SubSeq(list, 1, Len(list) - 1) ELSE list
             r == PairLoop(popped, start_idx, Len(popped), start_idx)
         IN  IF ~r.ok THEN [ok |-> FALSE, nodes |-> r.nodes]
             ELSE WhileLoop(IF odd THEN Append(r.nodes, list[Len(list)]) ELSE r.nodes,
                            r.start_idx)

\* Tile::recompute_node_keys: the entries returned (ok), or a panic
recompute_node_keys(tile) == WhileLoop(BaseNodes(tile), 0)

\* the tiles of the calls: every count of base hashes at level 0, and some
\* counts further up and further right
TileIds ==
    {TileId(0, 0, Some(k), 0) : k \in 1..255}
        \cup {TileId(0, 0, None, 0)}
        \cup {TileId(1, 1, Some(k), 0) : k \in {1, 2, 3, 5, 17}}
        \cup {TileId(0, 273, Some(k), 0) : k \in {1, 6, 7, 112}}
        \cup {TileId(2, 47, Some(244), 0), TileId(1, 0, None, 0)}

\* the tile id.with_data(data) returns for data of the expected length
TileOf(id) == with_data(id, Bytes(32 * (IF is_partial(id) THEN id.partial[1] ELSE 256)))[1]

TileInit ==
    /\ TreeInit
    /\ overflow_checks = TRUE
    /\ tiles = FALSE
    /\ SthIdle
    /\ DedupIdle
    /\ ScanIdle
    /\ LeadIdle
    /\ InsertIdle
    /\ FetchIdle
    /\ input \in {TileOf(id) : id \in TileIds}
    /\ output = NotCalled
    /\ memory_store = <<>>
    /\ directory = <<>>
    /\ local_storage = <<>>

\* the caller calls tile.recompute_node_keys()
RecomputeNodeKeys ==
    /\ output = NotCalled
    /\ output' = <<"recompute_node_keys", recompute_node_keys(input)>>
    /\ UNCHANGED <<input, storeVars, callOthers>>

TileNext == RecomputeNodeKeys

SpecTile == TileInit /\ [][TileNext]_vars

\* the entries a call returned, and their keys
Returned == output[2].nodes
ReturnedKeys == {Returned[i].key : i \in 1..Len(Returned)}

\* the positions of the base nodes in what the call returned, in the order of
\* the entries
BasePositions ==
    {i \in 1..Len(Returned) : size(Returned[i].key) = 2 ^ (8 * input.id.level)}

\* the key spanning all base nodes of the tile
SpanningKey ==
    NodeKey(BaseNodes(input)[1].key.start, BaseNodes(input)[input.data.len \div 32].key.end)

\* the hash the call returned for a key
HashOf(key) == Returned[CHOOSE i \in 1..Len(Returned) : Returned[i].key = key].hash

\* C25: for a tile of k base hashes, 1 <= k <= 256, recompute_node_keys
\* returns 2k - 1 entries: the k base nodes in their order, and merged nodes
\* whose hash is that of Node{left, right}; every key is a node of the RFC
\* 6962 tree below the key spanning the base nodes, and that key is returned.
C25_RecomputeNodeKeys ==
    output # NotCalled =>
        LET k == input.data.len \div 32
        IN  /\ output[2].ok
            /\ Len(Returned) = 2 * k - 1
            /\ Cardinality(ReturnedKeys) = 2 * k - 1
            /\ Cardinality(BasePositions) = k
            /\ \A i \in BasePositions :
                   Returned[i] = BaseNodes(input)[Cardinality({j \in BasePositions : j <= i})]
            /\ \A i \in (1..Len(Returned)) \ BasePositions :
                   /\ split(Returned[i].key)[1] \in ReturnedKeys
                   /\ split(Returned[i].key)[2] \in ReturnedKeys
                   /\ Returned[i].hash = NodeHash(HashOf(split(Returned[i].key)[1]),
                                                  HashOf(split(Returned[i].key)[2]))
            /\ \A key \in ReturnedKeys : IsNodeBelow(key, SpanningKey)
            /\ SpanningKey \in ReturnedKeys

\* the call returned for a tile with an odd number of base hashes, where the
\* last node is popped and pushed back
C25_Witness ==
    /\ output # NotCalled
    /\ output[2].ok
    /\ input.data.len \div 32 = 7
    /\ Len(Returned) = 13


-----------------------------------------------------------------------------
(* CtClient::get_tile (luct-client/src/request/tiling.rs), called by a       *)
(* caller; the inner client answers each get_bin                             *)

\* what self.client.get_bin(..).await returned: Ok((status, body of len
\* bytes)), or Err(ConnectionError)
Reply(status, len) == [status |-> status, len |-> len]
ConnectionFailed == Reply(0, 0)

\* Result<Tile, ClientError>
NoTile == Tile(NoTileId, Bytes(0))
TileOk(tile) == [status |-> "Ok", tile |-> tile, err |-> "none"]
TileErr(err) == [status |-> "Err", tile |-> NoTile, err |-> err]

\* what get_tile returned, and the tile ids it fetched
Fetched(res, ids) == [result |-> res, fetches |-> ids]

\* check_status_binary
check_status_binary(status) == IF status # 200 THEN "ResponseError" ELSE "Ok"

\* the end of get_tile: check_status_binary, then with_data
WrapTile(id, reply, ids) ==
    IF check_status_binary(reply.status) # "Ok"
    THEN Fetched(TileErr(check_status_binary(reply.status)), ids)
    ELSE IF with_data(id, Bytes(reply.len)) = None
    THEN Fetched(TileErr("MalformedTile"), ids)
    ELSE Fetched(TileOk(with_data(id, Bytes(reply.len))[1]), ids)

\* A variant of get_tile that retries on every status other than 200
get_tile_retry_always(tile_url, id, first, second) ==
    IF ~tile_url THEN Fetched(TileErr("NonTilingLog"), <<>>)
    ELSE IF first = ConnectionFailed THEN Fetched(TileErr("ConnectionError"), <<id>>)
    ELSE IF first.status # 200
    THEN IF second = ConnectionFailed
         THEN Fetched(TileErr("ConnectionError"), <<id, into_unpartial(id)>>)
         ELSE WrapTile(into_unpartial(id), second, <<id, into_unpartial(id)>>)
    ELSE WrapTile(id, first, <<id>>)

\* CtClient::get_tile on a log with or without a tile_url, with the replies
\* of the inner client to the first and to the second get_bin
get_tile(tile_url, id, first, second) ==
    IF ~tile_url THEN Fetched(TileErr("NonTilingLog"), <<>>)
    ELSE IF first = ConnectionFailed THEN Fetched(TileErr("ConnectionError"), <<id>>)
    ELSE IF first.status = 404 /\ is_partial(id)
    THEN IF second = ConnectionFailed
         THEN Fetched(TileErr("ConnectionError"), <<id, into_unpartial(id)>>)
         ELSE WrapTile(into_unpartial(id), second, <<id, into_unpartial(id)>>)
    ELSE WrapTile(id, first, <<id>>)

\* the tile ids asked for, and the replies of the inner client
GetTileIds == {TileId(0, 0, Some(1), 3), TileId(0, 0, Some(3), 3), TileId(0, 273, Some(112), 70000),
               TileId(0, 1, None, 70000)}
Replies ==
    {Reply(st, len) : st \in {200, 404, 500}, len \in {0, 32, 96, 97, 3584, 8192}}
        \cup {ConnectionFailed}

GetTileInit ==
    /\ TreeInit
    /\ overflow_checks = TRUE
    /\ tiles = FALSE
    /\ SthIdle
    /\ DedupIdle
    /\ ScanIdle
    /\ LeadIdle
    /\ InsertIdle
    /\ FetchIdle
    /\ input \in [tile_url : BOOLEAN, id : GetTileIds, first : Replies, second : Replies]
    /\ output = NotCalled
    /\ memory_store = <<>>
    /\ directory = <<>>
    /\ local_storage = <<>>

\* the caller calls client.get_tile(tile_id).await
GetTile ==
    /\ output = NotCalled
    /\ output' = <<"get_tile", get_tile(input.tile_url, input.id, input.first, input.second)>>
    /\ UNCHANGED <<input, storeVars, callOthers>>

GetTileNext == GetTile

SpecGetTile == GetTileInit /\ [][GetTileNext]_vars

\* the reply to the last fetch of the call, and the tile id of that fetch
FinalReply == IF Len(output[2].fetches) = 2 THEN input.second ELSE input.first
FinalId == output[2].fetches[Len(output[2].fetches)]

\* the count of hashes expected of a tile id
ExpectedCount(id) == IF id.partial = None THEN 256 ELSE id.partial[1]

\* C26: get_tile makes at most two fetches, the second against the
\* un-partial id and only after a 404 on a partial id; it succeeds only on a
\* final status 200 with a body of 32 times the expected count of the id
\* last used, and returns MalformedTile when that length differs.
C26_GetTileFallback ==
    output # NotCalled =>
        /\ Len(output[2].fetches) <= 2
        /\ Len(output[2].fetches) = 2 =>
               /\ input.first # ConnectionFailed
               /\ input.first.status = 404
               /\ input.id.partial # None
               /\ output[2].fetches = <<input.id, TileId(input.id.level, input.id.index, None,
                                                         input.id.tree_size)>>
        /\ output[2].result.status = "Ok" =>
               /\ Len(output[2].fetches) >= 1
               /\ FinalReply # ConnectionFailed
               /\ FinalReply.status = 200
               /\ FinalReply.len = 32 * ExpectedCount(FinalId)
               /\ Len(output[2].fetches) = 2 => FinalReply.len = 32 * 256
               /\ output[2].result.tile = Tile(FinalId, Bytes(FinalReply.len))
        /\ (/\ Len(output[2].fetches) >= 1
            /\ FinalReply # ConnectionFailed
            /\ FinalReply.status = 200
            /\ FinalReply.len # 32 * ExpectedCount(FinalId))
               => output[2].result = TileErr("MalformedTile")

\* the partial tile was not found and the call returned the full tile
C26_Witness ==
    /\ output # NotCalled
    /\ Len(output[2].fetches) = 2
    /\ output[2].result.status = "Ok"
    /\ output[2].result.tile.data.len = 8192

\* a body of the partial length after the fallback is malformed
GetTileFallbackPartialLength ==
    (/\ output # NotCalled
     /\ Len(output[2].fetches) = 2
     /\ input.second = Reply(200, 32 * input.id.partial[1]))
        => output[2].result = TileErr("MalformedTile")


-----------------------------------------------------------------------------
(* Further claims on the STH verifier *)

\* the call of the task is about to insert an STH that passed the consistency
\* check against the STH the store had reported
InsertsChecked(t) ==
    /\ op[t] = "update_sth"
    /\ old_sth[t] # NoSth
    /\ chk[t] = "Ok"

\* C27: whatever the interleaving of latest_sth and update_sth calls, only
\* the insert into the empty store adds an STH without a consistency check:
\* every step that changes a non-empty store is the insert of an STH that
\* passed the check against an STH of the store.
C27_OneUncheckedInsert ==
    [][(sth_store' # sth_store /\ sth_store # EmptyStore) =>
           \E t \in Tasks :
               /\ pc[t] = "insert"
               /\ pc'[t] = "done"
               /\ InsertsChecked(t)
               /\ \E key \in DOMAIN sth_store : sth_store[key] = old_sth[t]]_vars

\* An STH that was inserted without a check was fetched by a call that had
\* found the store empty.
UncheckedInsertSawEmptyStore ==
    [][\A t \in Tasks :
           (pc[t] = "insert" /\ pc'[t] = "done" /\ ~InsertsChecked(t)) => old_sth[t] = NoSth]_vars


-----------------------------------------------------------------------------
(* TileFetcher and TileFetchStore (luct-scanner/src/log/tiling.rs): checks   *)
(* that run concurrently on one tiling log.  TileFetchStore holds a          *)
(* Box<dyn Store> and so is neither Send nor Sync: the checks are futures    *)
(* polled by one thread and a step is what one poll runs between two awaits. *)

\* the checks running on the log
CheckIds == {1, 2}

\* the tree sizes of the STHs of the log
FetchSizes == {2, 3, 5}

\* a store that answers get(key) with the key
KeyStore(n) ==
    [key \in {k \in [start : 0..n, end : 0..n] : k.start < k.end} |-> <<key.start, key.end>>]

\* the keys get_audit_proof asks the store for, in the order of the gets
AuditKeys(n, index) ==
    LET path == AuditWalk(KeyStore(n), full_range(n), index)
    IN  {NodeKey(path[i][1], path[i][2]) : i \in 1..Len(path)}

\* the keys get_consistency_proof asks the store for
ConsistencyKeys(first, second) ==
    LET path == ConsistencyWalk(KeyStore(second), full_range(second), first, TRUE)
    IN  {NodeKey(path[i][1], path[i][2]) : i \in 1..Len(path)}

\* the jobs of the checks that get as far as set_tree_size, with the keys
\* their proof asks for (first is the leaf index or the size of the old STH): check_embdedded_sct_inclusion of a leaf index against
\* an STH, check_sth_consistency of two STHs of different sizes (the proof of
\* a shrinking tree is refused before any get)
FetchJobs ==
    UNION {{[check |-> "inclusion", size |-> n, keys |-> AuditKeys(n, index),
             first |-> index] :
                index \in 0..(n - 1)} : n \in FetchSizes}
        \cup {job \in {[check |-> "consistency", size |-> n,
                         keys |-> IF first < n THEN ConsistencyKeys(first, n) ELSE {},
                         first |-> first] : n \in FetchSizes, first \in FetchSizes} :
                  job.first # job.size}

\* what a fetch returns: whether it is Some, the tile ids it computed and the
\* keys of the nodes it returns
Nodes(ok, ids, keys) == [ok |-> ok, ids |-> ids, keys |-> keys]

\* the keys of the nodes recompute_node_keys returns for the tile of an id
KeysOfTile(id) ==
    LET r == recompute_node_keys(TileOf(id))
    IN  {r.nodes[i].key : i \in 1..Len(r.nodes)}

\* TileFetchStore::fetch_balanced_keys, ahead of the answer to get_tile
fetch_balanced_keys(cache, key, n) ==
    IF key \in cache THEN Nodes(TRUE, {}, {key})
    ELSE LET tile_id == from_node_key(key, n)
         IN  IF tile_id.status = "Panic" THEN Nodes(FALSE, {}, {})
             ELSE Nodes(TRUE, {tile_id.id}, KeysOfTile(tile_id.id))

\* TileFetchStore::fetch_unbalanced_keys
RECURSIVE fetch_unbalanced_keys(_, _, _)
fetch_unbalanced_keys(cache, key, n) ==
    IF key \in cache THEN Nodes(TRUE, {}, {key})
    ELSE IF is_balanced(key) THEN fetch_balanced_keys(cache, key, n)
    ELSE LET l == fetch_balanced_keys(cache, split(key)[1], n)
             r == fetch_unbalanced_keys(cache, split(key)[2], n)
         IN  Nodes(/\ l.ok /\ r.ok
                   /\ split(key)[1] \in l.keys
                   /\ split(key)[2] \in r.keys,
                   l.ids \cup r.ids, l.keys \cup r.keys \cup {key})

\* A get that has loaded tree_size before the check has set it
load_before_set(before, after) == before

\* self.tree_size.load(Ordering::Acquire) in get: the first poll of the get
\* runs in the poll of the check that has just run set_tree_size
load_tree_size(before, after) == after

\* TileFetchStore::get past the cache lookup, ahead of the answers of the log:
\* None when the tree size it loaded is 0
get_uncached(cache, key, n) ==
    IF n = 0 THEN Nodes(FALSE, {}, {}) ELSE fetch_unbalanced_keys(cache, key, n)

\* a check that is not running
NoCheck == [at |-> "idle", size |-> 0, asked |-> {}, pending |-> {}]

FetchInit ==
    /\ TreeInit
    /\ overflow_checks = TRUE
    /\ tiles = TRUE
    /\ SthIdle
    /\ DedupIdle
    /\ ScanIdle
    /\ LeadIdle
    /\ InsertIdle
    /\ fetch_size = 0
    /\ fetched = {}
    /\ checks = [c \in CheckIds |-> NoCheck]
    /\ CallIdle

\* the first poll of a check: set_tree_size, then the first poll of join_all
\* polls every get of the proof up to the await of its tile: a get whose key
\* is in the cache is done, every other loads tree_size and computes the ids
\* of its tiles
StartCheck(c, job) ==
    /\ checks[c].at \in {"idle", "done"}
    /\ fetch_size' = job.size
    /\ LET misses == {key \in job.keys : key \notin fetched}
           gets == {[key |-> key,
                     nodes |-> get_uncached(fetched, key,
                                            load_tree_size(fetch_size, fetch_size'))] :
                        key \in misses}
       IN  checks' = [checks EXCEPT ![c] =
                         [at |-> IF misses = {} THEN "done" ELSE "fetching",
                          size |-> job.size,
                          asked |-> UNION {g.nodes.ids : g \in gets},
                          pending |-> gets]]
    /\ UNCHANGED <<fetched, fetchOthers>>

\* the tiles of a get arrived: the nodes go to the cache and the get returns
GetDone(c, g) ==
    /\ checks[c].at = "fetching"
    /\ g \in checks[c].pending
    /\ g.nodes.ok
    /\ fetched' = fetched \cup g.nodes.keys
    /\ checks' = [checks EXCEPT ![c].pending = @ \ {g},
                                ![c].at = IF checks[c].pending = {g} THEN "done" ELSE @]
    /\ UNCHANGED <<fetch_size, fetchOthers>>

\* a tile of a get could not be fetched: the get returns None
GetFailed(c, g) ==
    /\ checks[c].at = "fetching"
    /\ g \in checks[c].pending
    /\ checks' = [checks EXCEPT ![c].pending = @ \ {g},
                                ![c].at = IF checks[c].pending = {g} THEN "done" ELSE @]
    /\ UNCHANGED <<fetch_size, fetched, fetchOthers>>

FetchNext ==
    \/ \E c \in CheckIds : \E job \in FetchJobs : StartCheck(c, job)
    \/ \E c \in CheckIds : \E g \in checks[c].pending : GetDone(c, g)
    \/ \E c \in CheckIds : \E g \in checks[c].pending : GetFailed(c, g)

SpecFetch == FetchInit /\ [][FetchNext]_vars

\* C28 as stated: while the node fetches of a proof are in flight, the shared
\* tree_size is the tree size of that proof and every tile id of the proof
\* was computed with it.
C28_SharedTreeSizeKept ==
    \A c \in CheckIds :
        checks[c].at = "fetching" =>
            /\ fetch_size = checks[c].size
            /\ \A id \in checks[c].asked : id.tree_size = checks[c].size

\* C28, amended: every tile id computed during a proof uses the tree size of
\* the tree head of that proof (also while another check has set the shared
\* tree_size to its own).
C28_TileIdsUseOwnTreeSize ==
    \A c \in CheckIds :
        \A id \in checks[c].asked :
            /\ id.tree_size = checks[c].size
            /\ id.partial = Some(checks[c].size)

\* two proofs for different tree sizes have their fetches in flight
C28_Witness ==
    /\ checks[1].at = "fetching"
    /\ checks[2].at = "fetching"
    /\ checks[1].size # checks[2].size
    /\ checks[1].asked # {}
    /\ checks[2].asked # {}
    /\ fetch_size # checks[1].size


-----------------------------------------------------------------------------
(* AuditProof::validate and ConsistencyProof::validate, called on the tree   *)
(* heads and the proof a log server supplied                                 *)

\* the hashes, tree heads and paths a log server answers with
ProofHashes == {LeafHash(1), NodeHash(LeafHash(1), LeafHash(1))}
ProofHeads == {TreeHead(n, h) : n \in 0..3, h \in ProofHashes}
ProofPaths ==
    {<<>>} \cup {<<h>> : h \in ProofHashes} \cup {<<h, g>> : h \in ProofHashes, g \in ProofHashes}

\* the proof to validate, and the build that validates it
ProofInit ==
    /\ TreeInit
    /\ overflow_checks \in BOOLEAN
    /\ tiles = FALSE
    /\ SthIdle
    /\ DedupIdle
    /\ ScanIdle
    /\ LeadIdle
    /\ InsertIdle
    /\ FetchIdle
    /\ input \in [proof : {"audit", "consistency"}, first : ProofHeads, second : ProofHeads,
                  index : 0..3, path : ProofPaths]
    /\ output = NotCalled
    /\ memory_store = <<>>
    /\ directory = <<>>
    /\ local_storage = <<>>

\* AuditProof { index, path }.validate(&second, &leaf) for the leaf 1
AuditValidate ==
    /\ output = NotCalled
    /\ input.proof = "audit"
    /\ output' = <<"validate", AuditProof_validate([index |-> input.index, path |-> input.path],
                                                    input.second, LeafHash(1))>>
    /\ UNCHANGED <<input, storeVars, callOthers>>

\* ConsistencyProof { path }.validate(&first, &second)
ConsistencyValidate ==
    /\ output = NotCalled
    /\ input.proof = "consistency"
    /\ output' = <<"validate", ConsistencyProof_validate(input.path, input.first, input.second)>>
    /\ UNCHANGED <<input, storeVars, callOthers>>

ProofNext == AuditValidate \/ ConsistencyValidate

SpecProof == ProofInit /\ [][ProofNext]_vars

\* C30: for every tree head (of size 0 too), every index and every path (the
\* empty one too), AuditProof::validate and ConsistencyProof::validate return
\* Ok or a ProofValidationError: they never panic.
C30_ValidateIsTotal ==
    output # NotCalled => output[2] # "Panic"

\* validate panics only on a tree head of size 0 under overflow checks, and
\* in ConsistencyProof::validate on an empty path once the first head is
\* prepended where the code prepends it.
ValidatePanicsOnlyOn ==
    (output # NotCalled /\ output[2] = "Panic") =>
        \/ input.proof = "audit" /\ input.second.tree_size = 0 /\ overflow_checks
        \/ /\ input.proof = "consistency"
           /\ \/ input.first.tree_size = 0 /\ overflow_checks
              \/ input.path = <<>> /\ ~is_power_of_two(input.first.tree_size)

=============================================================================
